---- MODULE Spec2Model ----
(***************************************************************************)
(* Model of encrypted_ir: the key lifecycle manager (key_manager.py), the   *)
(* blind index codec (blind_index.py), the order-preserving codec          *)
(* (order_preserving.py) and searchable encryption (searchable.py).        *)
(*                                                                         *)
(* Python dicts are functions (insertion order is kept only where a        *)
(* serialized payload is iterated), bytes are sequences of 0..255,         *)
(* datetimes are integer ticks, Optional values are <<>> or <<x>>.         *)
(* os.urandom and SHA-256 digests are inputs: any value of a small pool.   *)
(***************************************************************************)
EXTENDS Integers, Sequences, FiniteSets, TLC

VARIABLES
    keys,       \* KeyManager._keys: key_id -> raw bytes
    metadata,   \* KeyManager._metadata: key_id -> KeyMetadata
    audit_log,  \* KeyManager._audit_log: list of entries
    now,        \* the clock read by datetime.now()
    bundles,    \* the export bundle the caller holds: its latest export
    threads,    \* the get_key calls in progress in concurrent threads
    last,       \* the last call: operation, argument, outcome, return value
    tenant_id,      \* BlindIndexGenerator.tenant_id
    master_key,     \* BlindIndexGenerator.master_key
    field_keys,     \* BlindIndexGenerator._field_keys: field_name -> derived key
    ope_key,        \* OrderPreservingEncryption.key
    prf,            \* what HMAC-SHA256 under ope_key yields, first 8 bytes as an integer
    mapping_cache,  \* OrderPreservingEncryption._mapping_cache: plaintext -> ciphertext
    encryption_key, \* SearchableEncryption.encryption_key
    search_key      \* SearchableEncryption.search_key

managerVars == <<keys, metadata, audit_log, now, bundles, threads>>
codecVars == <<tenant_id, master_key, field_keys, ope_key, prf, mapping_cache,
               encryption_key, search_key>>
vars == <<keys, metadata, audit_log, now, bundles, threads, last,
          tenant_id, master_key, field_keys, ope_key, prf, mapping_cache,
          encryption_key, search_key>>

---------------------------------------------------------------------------
(* Bounds of the model *)

MaxLog == 3        \* calls are taken while the audit log is shorter
MaxTime == 1       \* the clock stops advancing here

---------------------------------------------------------------------------
(* Values *)

None == <<>>
Some(x) == <<x>>

KeyTypes == {"det", "ope"}
Digests == {"a1", "b2"}
KeyIds == KeyTypes \X Digests
StarId == <<"*", "">>
KeySizes == {1, 2}
ByteVals == {77, 200}
Passwords == {"pw", "wrong"}
ExpiryTimes == {-1, 1}
TicksPerSecond == 2

\* the create_key calls callers make
CreateRequests ==
    {[key_type |-> "det", key_size |-> 1, rotation_period_days |-> 1],
     [key_type |-> "ope", key_size |-> 2, rotation_period_days |-> 2]}

OpeRequests == {r \in CreateRequests : r.key_type = "ope"}
OpeIds == {"ope"} \X Digests

\* os.urandom(n): n bytes, one sample per byte value of the pool
Urandom(pool, n) == {[i \in 1..n |-> b] : b \in pool}

RECURSIVE SetToSeq(_)
SetToSeq(S) ==
    IF S = {} THEN <<>>
    ELSE LET x == CHOOSE y \in S : TRUE IN <<x>> \o SetToSeq(S \ {x})

\* dict.items() of a dict d
Items(d) == LET ids == SetToSeq(DOMAIN d) IN [i \in 1..Len(ids) |-> <<ids[i], d[ids[i]]>>]

\* d[k] = v on a dict
Put(d, k, v) == [x \in DOMAIN d \cup {k} |-> IF x = k THEN v ELSE d[x]]

EmptyDict == [x \in {} |-> 0]

---------------------------------------------------------------------------
(* datetime.isoformat / datetime.fromisoformat: the fraction is printed    *)
(* only when it is not zero                                                *)

IsoFormat(t) ==
    IF t % TicksPerSecond = 0 THEN <<t \div TicksPerSecond>>
    ELSE <<t \div TicksPerSecond, t % TicksPerSecond>>

FromIsoFormat(s) ==
    s[1] * TicksPerSecond + (IF Len(s) > 1 THEN s[2] ELSE 0)

---------------------------------------------------------------------------
(* base64.b64encode / base64.b64decode: 3 bytes <-> 4 sextets, "=" is 64   *)

Pad == 64

B64Group(g) ==
    LET b(i) == IF i <= Len(g) THEN g[i] ELSE 0
        n == b(1) * 65536 + b(2) * 256 + b(3)
    IN <<n \div 262144,
         (n \div 4096) % 64,
         IF Len(g) >= 2 THEN (n \div 64) % 64 ELSE Pad,
         IF Len(g) >= 3 THEN n % 64 ELSE Pad>>

RECURSIVE B64Encode(_)
B64Encode(bytes) ==
    IF Len(bytes) = 0 THEN <<>>
    ELSE IF Len(bytes) <= 3 THEN B64Group(bytes)
    ELSE B64Group(SubSeq(bytes, 1, 3)) \o B64Encode(SubSeq(bytes, 4, Len(bytes)))

\* as B64Ungroup, without dropping the bytes that stand for padding
B64UngroupKeepsPadding(c) ==
    LET v(i) == IF c[i] = Pad THEN 0 ELSE c[i]
        n == v(1) * 262144 + v(2) * 4096 + v(3) * 64 + v(4)
    IN <<n \div 65536, (n \div 256) % 256, n % 256>>

B64Ungroup(c) ==
    LET v(i) == IF c[i] = Pad THEN 0 ELSE c[i]
        n == v(1) * 262144 + v(2) * 4096 + v(3) * 64 + v(4)
        full == <<n \div 65536, (n \div 256) % 256, n % 256>>
    IN IF c[3] = Pad THEN SubSeq(full, 1, 1)
       ELSE IF c[4] = Pad THEN SubSeq(full, 1, 2)
       ELSE full

\* binascii.Error ("Incorrect padding") when the length is no multiple of 4
B64Valid(text) == Len(text) % 4 = 0

RECURSIVE B64Decode(_)
B64Decode(text) ==
    IF Len(text) = 0 THEN <<>>
    ELSE B64Ungroup(SubSeq(text, 1, 4)) \o B64Decode(SubSeq(text, 5, Len(text)))

---------------------------------------------------------------------------
(* KeyMetadata *)

DefaultRotationPeriodDays == 90

KeyMetadata(key_id, key_type, created_at, expires_at, rotation_period_days, description) ==
    [key_id |-> key_id,
     key_type |-> key_type,
     created_at |-> created_at,
     expires_at |-> expires_at,
     rotation_period_days |-> rotation_period_days,
     description |-> description,
     last_rotated |-> created_at,
     access_count |-> 0,
     active |-> TRUE]

ToDict(m) ==
    [key_id |-> m.key_id,
     key_type |-> m.key_type,
     created_at |-> IsoFormat(m.created_at),
     expires_at |-> IF m.expires_at # None THEN Some(IsoFormat(m.expires_at[1])) ELSE None,
     rotation_period_days |-> m.rotation_period_days,
     description |-> m.description,
     last_rotated |-> IsoFormat(m.last_rotated),
     access_count |-> m.access_count,
     active |-> m.active]

\* data['key_id'], data['key_type'], data['created_at'] raise KeyError when missing
FromDictOk(data) == {"key_id", "key_type", "created_at"} \subseteq DOMAIN data

DictGet(data, field, default) == IF field \in DOMAIN data THEN data[field] ELSE default

FromDict(data) ==
    LET m == KeyMetadata(data.key_id,
                         data.key_type,
                         FromIsoFormat(data.created_at),
                         IF DictGet(data, "expires_at", None) # None
                             THEN Some(FromIsoFormat(data.expires_at[1])) ELSE None,
                         DictGet(data, "rotation_period_days", DefaultRotationPeriodDays),
                         DictGet(data, "description", <<>>))
    IN [m EXCEPT !.last_rotated = FromIsoFormat(DictGet(data, "last_rotated", data.created_at)),
                 !.access_count = DictGet(data, "access_count", 0),
                 !.active = DictGet(data, "active", TRUE)]

IsExpired(m, t) == m.expires_at # None /\ t > m.expires_at[1]

SecondsPerDay == 86400
TicksPerDay == SecondsPerDay * TicksPerSecond

\* timedelta.days: whole days, rounded down also for a negative difference
Days(delta) == delta \div TicksPerDay

\* as NeedsRotation, without the test of the active flag
NeedsRotationIgnoresActive(m, t) ==
    Days(t - m.last_rotated) >= m.rotation_period_days

NeedsRotation(m, t) ==
    IF ~m.active THEN FALSE
    ELSE Days(t - m.last_rotated) >= m.rotation_period_days

---------------------------------------------------------------------------
(* KeyManager helpers *)

\* sha256(type:timestamp || urandom(16)).hexdigest()[:16]: the digest is
\* whatever the random bytes make it; nothing compares it to the ids in use
GenerateKeyId(key_type, digest) == <<key_type, digest>>

\* as LogAccess, with the entry put first
LogAccessPrepends(log, t, key_id, operation, success, details) ==
    <<[timestamp |-> IsoFormat(t),
       key_id |-> key_id,
       operation |-> operation,
       success |-> success,
       details |-> details]>> \o log

LogAccess(log, t, key_id, operation, success, details) ==
    Append(log, [timestamp |-> IsoFormat(t),
                 key_id |-> key_id,
                 operation |-> operation,
                 success |-> success,
                 details |-> details])

Call(op, key_id, outcome, ret) ==
    [op |-> op, key_id |-> key_id, outcome |-> outcome, ret |-> ret]

---------------------------------------------------------------------------
(* create_key *)

CreateKeyIn(ks, md, log, t, key_type, rotation_period_days, description, digest, key) ==
    LET key_id == GenerateKeyId(key_type, digest)
    IN [key_id |-> key_id,
        keys |-> Put(ks, key_id, key),
        metadata |-> Put(md, key_id,
                         KeyMetadata(key_id, key_type, t, None, rotation_period_days, description)),
        audit_log |-> LogAccess(log, t, key_id, "create", TRUE, <<"Created", key_type, "key">>)]

CreateKey(key_type, key_size, rotation_period_days, digest, key) ==
    /\ Len(key) = key_size
    /\ LET r == CreateKeyIn(keys, metadata, audit_log, now, key_type,
                            rotation_period_days, <<>>, digest, key)
       IN /\ keys' = r.keys
          /\ metadata' = r.metadata
          /\ audit_log' = r.audit_log
          /\ last' = Call("create_key", r.key_id, "ok", r.key_id)
    /\ UNCHANGED <<now, bundles>>
    /\ UNCHANGED <<threads, codecVars>>

---------------------------------------------------------------------------
(* get_key *)

\* as GetKeyOutcome, with the expiry test ahead of the active test
GetKeyOutcomeExpiryFirst(ks, md, t, key_id) ==
    IF key_id \notin DOMAIN ks THEN "NotFound"
    ELSE IF key_id \notin DOMAIN md THEN "NotFound"
    ELSE IF IsExpired(md[key_id], t) THEN "Expired"
    ELSE IF ~md[key_id].active THEN "Inactive"
    ELSE "ok"

GetKeyOutcome(ks, md, t, key_id) ==
    IF key_id \notin DOMAIN ks THEN "NotFound"
    ELSE IF key_id \notin DOMAIN md THEN "NotFound"   \* KeyError of the dict lookup
    ELSE IF ~md[key_id].active THEN "Inactive"
    ELSE IF IsExpired(md[key_id], t) THEN "Expired"
    ELSE "ok"

GetKeyLog(log, ks, md, t, key_id) ==
    IF key_id \notin DOMAIN ks
        THEN LogAccess(log, t, key_id, "get", FALSE, <<"Key not found">>)
    ELSE IF key_id \notin DOMAIN md
        THEN log
    ELSE IF ~md[key_id].active
        THEN LogAccess(log, t, key_id, "get", FALSE, <<"Key is inactive">>)
    ELSE IF IsExpired(md[key_id], t)
        THEN LogAccess(log, t, key_id, "get", FALSE, <<"Key is expired">>)
    ELSE LogAccess(log, t, key_id, "get", TRUE, <<>>)

\* as GetKeyMetadata, counting the access before the checks
GetKeyMetadataCountsEveryCall(ks, md, t, key_id) ==
    IF key_id \in DOMAIN ks /\ key_id \in DOMAIN md
        THEN [md EXCEPT ![key_id].access_count = @ + 1]
    ELSE md

\* as GetKeyMetadata, with access_count = 1 for access_count += 1
GetKeyMetadataSetsCount(ks, md, t, key_id) ==
    IF GetKeyOutcome(ks, md, t, key_id) = "ok"
        THEN [md EXCEPT ![key_id].access_count = 1]
    ELSE md

GetKeyMetadata(ks, md, t, key_id) ==
    IF GetKeyOutcome(ks, md, t, key_id) = "ok"
        THEN [md EXCEPT ![key_id].access_count = @ + 1]
    ELSE md

GetKey(key_id) ==
    /\ LET outcome == GetKeyOutcome(keys, metadata, now, key_id)
       IN last' = Call("get_key", key_id, outcome,
                       IF outcome = "ok" THEN keys[key_id] ELSE <<>>)
    /\ metadata' = GetKeyMetadata(keys, metadata, now, key_id)
    /\ audit_log' = GetKeyLog(audit_log, keys, metadata, now, key_id)
    /\ UNCHANGED <<keys, now, bundles>>
    /\ UNCHANGED <<threads, codecVars>>

---------------------------------------------------------------------------
(* get_key called from threads with no lock: a call that passes the checks  *)
(* reads access_count, writes access_count + 1, then logs and returns, and  *)
(* another thread can run between any two of these                          *)

InProgress == {t \in DOMAIN threads : threads[t].pc # "done"}

\* the checks of get_key, with the failure logged and raised at once; a call
\* that starts while another is in progress, or that another joins, is
\* marked overlapped
GetKeyBegin(t, key_id) ==
    /\ t \notin DOMAIN threads
    /\ LET outcome == GetKeyOutcome(keys, metadata, now, key_id)
       IN IF outcome = "ok"
          THEN /\ threads' =
                      [u \in DOMAIN threads \cup {t} |->
                          IF u = t
                              THEN [pc |-> "read", key_id |-> key_id, count |-> 0,
                                    outcome |-> outcome, overlapped |-> InProgress # {}]
                          ELSE IF u \in InProgress
                              THEN [threads[u] EXCEPT !.overlapped = TRUE]
                          ELSE threads[u]]
               /\ UNCHANGED <<audit_log, last>>
          ELSE /\ threads' = Put(threads, t,
                                 [pc |-> "done", key_id |-> key_id, count |-> 0,
                                  outcome |-> outcome, overlapped |-> FALSE])
               /\ audit_log' = GetKeyLog(audit_log, keys, metadata, now, key_id)
               /\ last' = Call("get_key", key_id, outcome, <<>>)
    /\ UNCHANGED <<keys, metadata, now, bundles>>
    /\ UNCHANGED codecVars

\* metadata.access_count += 1, the read
GetKeyRead(t) ==
    /\ t \in DOMAIN threads
    /\ threads[t].pc = "read"
    /\ threads' = [threads EXCEPT ![t].pc = "write",
                                  ![t].count = metadata[threads[t].key_id].access_count]
    /\ UNCHANGED <<keys, metadata, audit_log, now, bundles, last>>
    /\ UNCHANGED codecVars

\* as GetKeyWrite, storing the value read
GetKeyWriteStoresRead(t) ==
    /\ t \in DOMAIN threads
    /\ threads[t].pc = "write"
    /\ metadata' = [metadata EXCEPT ![threads[t].key_id].access_count = threads[t].count]
    /\ threads' = [threads EXCEPT ![t].pc = "log"]
    /\ UNCHANGED <<keys, audit_log, now, bundles, last>>
    /\ UNCHANGED codecVars

\* metadata.access_count += 1, the write
GetKeyWrite(t) ==
    /\ t \in DOMAIN threads
    /\ threads[t].pc = "write"
    /\ metadata' = [metadata EXCEPT ![threads[t].key_id].access_count = threads[t].count + 1]
    /\ threads' = [threads EXCEPT ![t].pc = "log"]
    /\ UNCHANGED <<keys, audit_log, now, bundles, last>>
    /\ UNCHANGED codecVars

\* self._log_access(key_id, 'get', True); return self._keys[key_id]
GetKeyReturn(t) ==
    /\ t \in DOMAIN threads
    /\ threads[t].pc = "log"
    /\ audit_log' = LogAccess(audit_log, now, threads[t].key_id, "get", TRUE, <<>>)
    /\ last' = Call("get_key", threads[t].key_id, "ok", keys[threads[t].key_id])
    /\ threads' = [threads EXCEPT ![t].pc = "done"]
    /\ UNCHANGED <<keys, metadata, now, bundles>>
    /\ UNCHANGED codecVars

---------------------------------------------------------------------------
(* rotate_key, delete_key *)

\* old_metadata is the object read before create_key runs: when the new id
\* equals key_id the map already holds the new object and the flag is set on
\* the old one, which nothing refers to any more
RotateKeyMetadata(md, key_id, new_key_id) ==
    IF new_key_id = key_id THEN md
    ELSE [md EXCEPT ![key_id].active = FALSE]

RotateKey(key_id, digest, key) ==
    /\ IF key_id \notin DOMAIN metadata
       THEN /\ last' = Call("rotate_key", key_id, "NotFound", <<>>)
            /\ UNCHANGED <<keys, metadata, audit_log>>
       ELSE IF key_id \notin DOMAIN keys   \* KeyError of len(self._keys[key_id])
       THEN /\ last' = Call("rotate_key", key_id, "NotFound", <<>>)
            /\ UNCHANGED <<keys, metadata, audit_log>>
       ELSE /\ Len(key) = Len(keys[key_id])
            /\ LET old == metadata[key_id]
                   r == CreateKeyIn(keys, metadata, audit_log, now, old.key_type,
                                    old.rotation_period_days,
                                    <<"Rotated from", key_id>>, digest, key)
               IN /\ keys' = r.keys
                  /\ metadata' = RotateKeyMetadata(r.metadata, key_id, r.key_id)
                  /\ audit_log' = LogAccess(r.audit_log, now, key_id, "rotate", TRUE,
                                            <<"Rotated to", r.key_id>>)
                  /\ last' = Call("rotate_key", key_id, "ok", r.key_id)
    /\ UNCHANGED <<now, bundles>>
    /\ UNCHANGED <<threads, codecVars>>

DeleteKeyMetadata(md, key_id) == [md EXCEPT ![key_id].active = FALSE]

\* as DeleteKey, logging the failure the way get_key does
DeleteKeyLogsNotFound(key_id) ==
    /\ IF key_id \notin DOMAIN metadata
       THEN /\ last' = Call("delete_key", key_id, "NotFound", <<>>)
            /\ audit_log' = LogAccess(audit_log, now, key_id, "delete", FALSE,
                                      <<"Key not found">>)
            /\ UNCHANGED metadata
       ELSE /\ metadata' = DeleteKeyMetadata(metadata, key_id)
            /\ audit_log' = LogAccess(audit_log, now, key_id, "delete", TRUE,
                                      <<"Key marked inactive">>)
            /\ last' = Call("delete_key", key_id, "ok", <<>>)
    /\ UNCHANGED <<keys, now, bundles>>
    /\ UNCHANGED <<threads, codecVars>>

DeleteKey(key_id) ==
    /\ IF key_id \notin DOMAIN metadata
       THEN /\ last' = Call("delete_key", key_id, "NotFound", <<>>)
            /\ UNCHANGED <<metadata, audit_log>>
       ELSE /\ metadata' = DeleteKeyMetadata(metadata, key_id)
            /\ audit_log' = LogAccess(audit_log, now, key_id, "delete", TRUE,
                                      <<"Key marked inactive">>)
            /\ last' = Call("delete_key", key_id, "ok", <<>>)
    /\ UNCHANGED <<keys, now, bundles>>
    /\ UNCHANGED <<threads, codecVars>>

\* list_keys(key_type, active_only): the ids in the order of _metadata;
\* key_type None or "" does not filter
ListKeys(md, key_type, active_only) ==
    LET Listed(item) ==
            /\ ~(active_only /\ ~item[2].active)
            /\ ~(key_type # None /\ key_type # <<"">> /\ item[2].key_type # key_type[1])
        listed == SelectSeq(Items(md), Listed)
    IN [i \in 1..Len(listed) |-> listed[i][1]]

---------------------------------------------------------------------------
(* export_keys *)

Salts == {"salt"}
Nonces == {"nonce"}

\* PBKDF2-HMAC-SHA256(password, salt): one key per (password, salt)
DeriveMasterKey(password, salt) == <<password, salt>>

\* AESGCM(key).encrypt(nonce, data, None); intact is cleared when any bit of
\* the ciphertext or tag is changed afterwards
AesGcmEncrypt(key, nonce, data) ==
    [key |-> key, nonce |-> nonce, data |-> data, intact |-> TRUE]

\* AESGCM(key).decrypt(nonce, ciphertext, None) raises InvalidTag unless this holds
AesGcmDecryptOk(key, nonce, ciphertext) ==
    /\ ciphertext.intact
    /\ ciphertext.key = key
    /\ ciphertext.nonce = nonce

ExportData(ks, md) ==
    LET k == Items(ks)
        m == Items(md)
    IN [keys |-> [i \in 1..Len(k) |-> <<k[i][1], B64Encode(k[i][2])>>],
        metadata |-> [i \in 1..Len(m) |-> <<m[i][1], ToDict(m[i][2])>>],
        version |-> "1.0"]

\* salt + nonce + ciphertext; origin remembers the exporting manager's maps
ExportBundle(ks, md, password, salt, nonce) ==
    [salt |-> salt,
     nonce |-> nonce,
     ciphertext |-> AesGcmEncrypt(DeriveMasterKey(password, salt), nonce, ExportData(ks, md)),
     origin |-> [keys |-> ks, metadata |-> md]]

ExportKeys(password, salt, nonce) ==
    /\ LET b == ExportBundle(keys, metadata, password, salt, nonce)
       IN /\ bundles' = {b}
          /\ last' = Call("export_keys", StarId, "ok", <<>>)
    /\ UNCHANGED <<keys, metadata, audit_log, now>>
    /\ UNCHANGED <<threads, codecVars>>

---------------------------------------------------------------------------
(* import_keys *)

\* for key_id, key_b64 in export_data['keys'].items(): stops at the first
\* entry b64decode rejects, with the entries before it stored
RECURSIVE ImportKeyLoop(_, _, _)
ImportKeyLoop(ks, items, i) ==
    IF i > Len(items) THEN [keys |-> ks, ok |-> TRUE]
    ELSE IF ~B64Valid(items[i][2]) THEN [keys |-> ks, ok |-> FALSE]
    ELSE ImportKeyLoop(Put(ks, items[i][1], B64Decode(items[i][2])), items, i + 1)

\* for key_id, metadata_dict in export_data['metadata'].items(): likewise
RECURSIVE ImportMetadataLoop(_, _, _)
ImportMetadataLoop(md, items, i) ==
    IF i > Len(items) THEN [metadata |-> md, ok |-> TRUE]
    ELSE IF ~FromDictOk(items[i][2]) THEN [metadata |-> md, ok |-> FALSE]
    ELSE ImportMetadataLoop(Put(md, items[i][1], FromDict(items[i][2])), items, i + 1)

\* as ImportKeysIn, without the loop over export_data['metadata']
ImportKeysInKeysOnly(ks, md, log, t, bundle, password) ==
    LET export_key == DeriveMasterKey(password, bundle.salt)
    IN IF ~AesGcmDecryptOk(export_key, bundle.nonce, bundle.ciphertext)
       THEN [keys |-> ks, metadata |-> md, audit_log |-> log, outcome |-> "InvalidTag"]
       ELSE LET data == bundle.ciphertext.data
                k == ImportKeyLoop(ks, data.keys, 1)
            IN IF ~k.ok
               THEN [keys |-> k.keys, metadata |-> md, audit_log |-> log,
                     outcome |-> "binascii.Error"]
               ELSE [keys |-> k.keys, metadata |-> md,
                     audit_log |-> LogAccess(log, t, StarId, "import", TRUE,
                                             <<"Imported", Len(data.keys), "keys">>),
                     outcome |-> "ok"]

ImportKeysIn(ks, md, log, t, bundle, password) ==
    LET export_key == DeriveMasterKey(password, bundle.salt)
    IN IF ~AesGcmDecryptOk(export_key, bundle.nonce, bundle.ciphertext)
       THEN [keys |-> ks, metadata |-> md, audit_log |-> log, outcome |-> "InvalidTag"]
       ELSE LET data == bundle.ciphertext.data
                k == ImportKeyLoop(ks, data.keys, 1)
                m == ImportMetadataLoop(md, data.metadata, 1)
            IN IF ~k.ok
               THEN [keys |-> k.keys, metadata |-> md, audit_log |-> log,
                     outcome |-> "binascii.Error"]
               ELSE IF ~m.ok
               THEN [keys |-> k.keys, metadata |-> m.metadata, audit_log |-> log,
                     outcome |-> "KeyError"]
               ELSE [keys |-> k.keys, metadata |-> m.metadata,
                     audit_log |-> LogAccess(log, t, StarId, "import", TRUE,
                                             <<"Imported", Len(data.keys), "keys">>),
                     outcome |-> "ok"]

\* what a caller can hand to import_keys: the bundle as exported, with any
\* password; the bundle changed in transit; or a bundle sealed under the
\* export password whose payload ends in an entry that does not parse
Tampered(b) == [b EXCEPT !.ciphertext.intact = FALSE]

ExtraId == <<"det", "zz">>

BadMetadataDict == [key_id |-> ExtraId, created_at |-> IsoFormat(0)]

WithBadMetadata(b) ==
    [b EXCEPT !.ciphertext.data.metadata = Append(@, <<ExtraId, BadMetadataDict>>)]

WithBadKey(b) ==
    [b EXCEPT !.ciphertext.data.keys = Append(@, <<ExtraId, <<19, 16, 61>>>>)]

ExportPassword(b) == b.ciphertext.key[1]

ImportCalls(b) ==
    {[bundle |-> b, password |-> p] : p \in Passwords}
        \cup {[bundle |-> v, password |-> ExportPassword(b)] :
                  v \in {Tampered(b), WithBadMetadata(b), WithBadKey(b)}}

ImportKeys(bundle, password) ==
    /\ LET r == ImportKeysIn(keys, metadata, audit_log, now, bundle, password)
       IN /\ keys' = r.keys
          /\ metadata' = r.metadata
          /\ audit_log' = r.audit_log
          /\ last' = Call("import_keys", StarId, r.outcome, <<>>)
    /\ UNCHANGED <<now, bundles>>
    /\ UNCHANGED <<threads, codecVars>>

\* manager2 = KeyManager(); manager2.import_keys(bundle, password)
NewManager == [keys |-> EmptyDict, metadata |-> EmptyDict, audit_log |-> <<>>]

\* the call's return value is the second manager as import_keys left it
ImportFresh(bundle, password) ==
    /\ LET m == NewManager
           r == ImportKeysIn(m.keys, m.metadata, m.audit_log, now, bundle, password)
       IN last' = Call("import_fresh", StarId, r.outcome,
                       <<bundle, password, [keys |-> r.keys, metadata |-> r.metadata,
                                            audit_log |-> r.audit_log]>>)
    /\ UNCHANGED <<keys, metadata, audit_log, now, bundles>>
    /\ UNCHANGED <<threads, codecVars>>

---------------------------------------------------------------------------
(* the clock, and a caller setting expires_at on the object get_metadata    *)
(* returns                                                                 *)

Tick ==
    /\ now' = now + 1
    /\ last' = Call("tick", StarId, "ok", <<>>)
    /\ UNCHANGED <<keys, metadata, audit_log, bundles>>
    /\ UNCHANGED <<threads, codecVars>>

SetExpiresAt(key_id, expires_at) ==
    /\ key_id \in DOMAIN metadata
    /\ metadata' = [metadata EXCEPT ![key_id].expires_at = Some(expires_at)]
    /\ last' = Call("set_expires_at", key_id, "ok", <<>>)
    /\ UNCHANGED <<keys, audit_log, now, bundles>>
    /\ UNCHANGED <<threads, codecVars>>

\* metadata = manager.get_metadata(key_id); metadata.last_rotated = datetime.now() - age
SetLastRotated(key_id, age) ==
    /\ key_id \in DOMAIN metadata
    /\ metadata' = [metadata EXCEPT ![key_id].last_rotated = now - age]
    /\ last' = Call("set_last_rotated", key_id, "ok", <<>>)
    /\ UNCHANGED <<keys, audit_log, now, bundles>>
    /\ UNCHANGED <<threads, codecVars>>

---------------------------------------------------------------------------
(* get_keys_needing_rotation *)

GetKeysNeedingRotation(md, t) ==
    LET items == Items(md)
        Needs(item) == NeedsRotation(item[2], t)
        needing == SelectSeq(items, Needs)
    IN [i \in 1..Len(needing) |-> needing[i][1]]

---------------------------------------------------------------------------
(* get_audit_log: logs[-limit:] reversed *)

NoFilter == <<>>

\* logs[-limit:]: -0 is 0, so limit 0 slices from the start
LastEntries(logs, limit) ==
    IF limit = 0 THEN logs
    ELSE SubSeq(logs, IF Len(logs) > limit THEN Len(logs) - limit + 1 ELSE 1, Len(logs))

Reversed(s) == [i \in 1..Len(s) |-> s[Len(s) + 1 - i]]

RECURSIVE FilterLog(_, _)
FilterLog(logs, key_id) ==
    IF logs = <<>> THEN <<>>
    ELSE (IF Head(logs).key_id = key_id THEN <<Head(logs)>> ELSE <<>>)
             \o FilterLog(Tail(logs), key_id)

GetAuditLog(log, key_id, limit) ==
    LET logs == IF key_id # NoFilter THEN FilterLog(log, key_id) ELSE log
    IN Reversed(LastEntries(logs, limit))

---------------------------------------------------------------------------
(* blind_index.py: strings are sequences of code points; the bytes of a    *)
(* random key or of an HMAC digest are values known only by where they     *)
(* come from                                                               *)

\* os.urandom(n): the n bytes of one draw
RandomBytes(draw, n) == [i \in 1..n |-> [origin |-> <<"urandom", draw>>, byte |-> i]]

DigestSize == 32

\* hmac.new(key, msg, hashlib.sha256).digest(): 32 bytes, each determined by
\* (key, msg) and by nothing else; distinct (key, msg) give distinct bytes
\* a byte string that is all the bytes of one origin is named by the origin
\* and its length
BytesId(bytes) ==
    IF /\ bytes # <<>>
       /\ \A i \in 1..Len(bytes) : bytes[i].origin = bytes[1].origin /\ bytes[i].byte = i
        THEN <<bytes[1].origin, Len(bytes)>>
    ELSE bytes

HmacSha256(key, msg) ==
    LET origin == <<"hmac", BytesId(key), msg>>
    IN [i \in 1..DigestSize |-> [origin |-> origin, byte |-> i]]

\* s[:n]
Prefix(s, n) ==
    IF n >= 0 THEN SubSeq(s, 1, IF n < Len(s) THEN n ELSE Len(s))
    ELSE SubSeq(s, 1, IF Len(s) + n > 0 THEN Len(s) + n ELSE 0)

\* str.encode('utf-8') of code points below 65536
Utf8Char(c) ==
    IF c < 128 THEN <<c>>
    ELSE IF c < 2048 THEN <<192 + (c \div 64), 128 + (c % 64)>>
    ELSE <<224 + (c \div 4096), 128 + ((c \div 64) % 64), 128 + (c % 64)>>

RECURSIVE Utf8(_)
Utf8(text) ==
    IF text = <<>> THEN <<>> ELSE Utf8Char(Head(text)) \o Utf8(Tail(text))

\* str.isspace() of one character
IsSpace(c) ==
    c \in {9, 10, 11, 12, 13, 28, 29, 30, 31, 32, 133, 160, 5760, 8232, 8233, 8239, 8287, 12288}
        \cup (8192..8202)

\* str.strip()
RECURSIVE LStrip(_)
LStrip(text) ==
    IF text # <<>> /\ IsSpace(Head(text)) THEN LStrip(Tail(text)) ELSE text

RECURSIVE RStrip(_)
RStrip(text) ==
    IF text # <<>> /\ IsSpace(text[Len(text)])
        THEN RStrip(SubSeq(text, 1, Len(text) - 1)) ELSE text

Strip(text) == RStrip(LStrip(text))

\* unicodedata.normalize(form, text) on ASCII, the fullwidth letters
\* (compatibility forms of the ASCII letters) and the ideographic space
NormalizeChar(form, c) ==
    IF form \in {"NFKC", "NFKD"} /\ c >= 65281 /\ c <= 65374 THEN c - 65248
    ELSE IF form \in {"NFKC", "NFKD"} /\ c = 12288 THEN 32
    ELSE c

UnicodeNormalize(form, text) == [i \in 1..Len(text) |-> NormalizeChar(form, text[i])]

\* str.lower() on the same characters
LowerChar(c) ==
    IF (c >= 65 /\ c <= 90) \/ (c >= 65313 /\ c <= 65338) THEN c + 32 ELSE c

Lower(text) == [i \in 1..Len(text) |-> LowerChar(text[i])]

BlindIndexConfig(field_name, output_length, case_sensitive, unicode_normalize) ==
    [field_name |-> field_name,
     output_length |-> output_length,
     case_sensitive |-> case_sensitive,
     unicode_normalize |-> unicode_normalize]

NormalizeValue(value, config) ==
    LET stripped == Strip(value)
        normalized == IF config.unicode_normalize # ""
                          THEN UnicodeNormalize(config.unicode_normalize, stripped)
                      ELSE stripped
    IN IF ~config.case_sensitive THEN Lower(normalized) ELSE normalized

---------------------------------------------------------------------------
(* base64 of bytes known only by origin: a character carries the bits of   *)
(* the bytes it is made of, "=" carries none                               *)

PadChar == <<>>

Bits(b, part) == [of |-> b, bits |-> part]

Base64Group(g) ==
    <<<<Bits(g[1], "hi6")>>,
      IF Len(g) >= 2 THEN <<Bits(g[1], "lo2"), Bits(g[2], "hi4")>>
      ELSE <<Bits(g[1], "lo2")>>,
      IF Len(g) >= 3 THEN <<Bits(g[2], "lo4"), Bits(g[3], "hi2")>>
      ELSE IF Len(g) = 2 THEN <<Bits(g[2], "lo4")>>
      ELSE PadChar,
      IF Len(g) >= 3 THEN <<Bits(g[3], "lo6")>> ELSE PadChar>>

RECURSIVE Base64Encode(_)
Base64Encode(bytes) ==
    IF Len(bytes) = 0 THEN <<>>
    ELSE IF Len(bytes) <= 3 THEN Base64Group(bytes)
    ELSE Base64Group(SubSeq(bytes, 1, 3)) \o Base64Encode(SubSeq(bytes, 4, Len(bytes)))

Base64Ungroup(c) ==
    <<c[1][1].of>>
        \o (IF c[3] # PadChar THEN <<c[3][1].of>> ELSE <<>>)
        \o (IF c[4] # PadChar THEN <<c[4][1].of>> ELSE <<>>)

RECURSIVE Base64Decode(_)
Base64Decode(text) ==
    IF Len(text) = 0 THEN <<>>
    ELSE Base64Ungroup(SubSeq(text, 1, 4)) \o Base64Decode(SubSeq(text, 5, Len(text)))

---------------------------------------------------------------------------
(* BlindIndexGenerator: a generator is tenant_id, master_key, _field_keys   *)

MasterKeySize == 32

\* BlindIndexGenerator(tenant_id, master_key) with a key of 32 bytes
Generator(tenant, key) ==
    [tenant_id |-> tenant, master_key |-> key, field_keys |-> EmptyDict]

\* f"{self.tenant_id}:{field_name}".encode('utf-8')
Context(tenant, field_name) == Utf8(tenant \o <<58>> \o field_name)

\* as DeriveFieldKey, with a cache that is not keyed by the field
DeriveFieldKeyAnyCached(g, field_name) ==
    IF DOMAIN g.field_keys # {}
        THEN [key |-> g.field_keys[CHOOSE f \in DOMAIN g.field_keys : TRUE],
              field_keys |-> g.field_keys, cache_hit |-> TRUE]
    ELSE LET derived_key == HmacSha256(g.master_key, Context(g.tenant_id, field_name))
         IN [key |-> derived_key,
             field_keys |-> Put(g.field_keys, field_name, derived_key),
             cache_hit |-> FALSE]

DeriveFieldKey(g, field_name) ==
    IF field_name \in DOMAIN g.field_keys
        THEN [key |-> g.field_keys[field_name], field_keys |-> g.field_keys,
              cache_hit |-> TRUE]
    ELSE LET derived_key == HmacSha256(g.master_key, Context(g.tenant_id, field_name))
         IN [key |-> derived_key,
             field_keys |-> Put(g.field_keys, field_name, derived_key),
             cache_hit |-> FALSE]

CreateIndexRawIn(g, value, config) ==
    LET normalized == NormalizeValue(value, config)
        k == DeriveFieldKey(g, config.field_name)
        digest == HmacSha256(k.key, Utf8(normalized))
    IN [index |-> Prefix(digest, config.output_length),
        field_keys |-> k.field_keys,
        cache_hit |-> k.cache_hit]

CreateIndexIn(g, value, config) ==
    LET normalized == NormalizeValue(value, config)
        k == DeriveFieldKey(g, config.field_name)
        digest == HmacSha256(k.key, Utf8(normalized))
        index_bytes == Prefix(digest, config.output_length)
    IN [index |-> Base64Encode(index_bytes),
        field_keys |-> k.field_keys,
        cache_hit |-> k.cache_hit]

\* as RotateKeyIn, without clearing the cached field keys
RotateKeyKeepsCache(g, new_master_key) ==
    IF Len(new_master_key) # MasterKeySize THEN [generator |-> g, outcome |-> "ValueError"]
    ELSE [generator |-> [g EXCEPT !.master_key = new_master_key], outcome |-> "ok"]

RotateKeyIn(g, new_master_key) ==
    IF Len(new_master_key) # MasterKeySize THEN [generator |-> g, outcome |-> "ValueError"]
    ELSE [generator |-> [g EXCEPT !.master_key = new_master_key,
                                  !.field_keys = EmptyDict],
          outcome |-> "ok"]

ExportMasterKey(g) == Base64Encode(g.master_key)

ImportMasterKey(master_key_b64, tenant) == Generator(tenant, Base64Decode(master_key_b64))

\* the generator the variables hold
Self == [tenant_id |-> tenant_id, master_key |-> master_key, field_keys |-> field_keys]

CreateIndex(value, config) ==
    /\ LET r == CreateIndexIn(Self, value, config)
       IN /\ field_keys' = r.field_keys
          /\ last' = Call("create_index", <<value, config>>, "ok",
                          [index |-> r.index, cache_hit |-> r.cache_hit])
    /\ UNCHANGED <<tenant_id, master_key, ope_key, prf, mapping_cache, encryption_key, search_key>>
    /\ UNCHANGED managerVars

CreateIndexRaw(value, config) ==
    /\ LET r == CreateIndexRawIn(Self, value, config)
       IN /\ field_keys' = r.field_keys
          /\ last' = Call("create_index_raw", <<value, config>>, "ok",
                          [index |-> r.index, cache_hit |-> r.cache_hit])
    /\ UNCHANGED <<tenant_id, master_key, ope_key, prf, mapping_cache, encryption_key, search_key>>
    /\ UNCHANGED managerVars

BlindIndexRotateKey(new_master_key) ==
    /\ LET r == RotateKeyIn(Self, new_master_key)
       IN /\ master_key' = r.generator.master_key
          /\ field_keys' = r.generator.field_keys
          /\ last' = Call("blind_index.rotate_key", new_master_key, r.outcome, <<>>)
    /\ UNCHANGED <<tenant_id, ope_key, prf, mapping_cache, encryption_key, search_key>>
    /\ UNCHANGED managerVars

---------------------------------------------------------------------------
(* BlindIndexSearch: records is the items of the records dict in order, a  *)
(* record is a dict from field names to None or Some(text)                 *)

RECURSIVE IndexRecordsLoop(_, _, _, _, _, _)
IndexRecordsLoop(g, items, i, field_name, config, index_map) ==
    IF i > Len(items) THEN [index_map |-> index_map, field_keys |-> g.field_keys]
    ELSE LET record_id == items[i][1]
             record_data == items[i][2]
         IN IF field_name \notin DOMAIN record_data
                THEN IndexRecordsLoop(g, items, i + 1, field_name, config, index_map)
            ELSE IF record_data[field_name] = None
                THEN IndexRecordsLoop(g, items, i + 1, field_name, config, index_map)
            ELSE LET r == CreateIndexIn(g, record_data[field_name][1], config)
                 IN IndexRecordsLoop([g EXCEPT !.field_keys = r.field_keys], items, i + 1,
                                     field_name, config, Put(index_map, r.index, record_id))

IndexRecords(g, records, field_name, config) ==
    IndexRecordsLoop(g, records, 1, field_name, config, EmptyDict)

SearchIn(g, query_value, index_map, config) ==
    LET r == CreateIndexIn(g, query_value, config)
    IN [result |-> IF r.index \in DOMAIN index_map THEN <<index_map[r.index]>> ELSE <<>>,
        field_keys |-> r.field_keys]

\* indexes = search.index_records(records, field_name, config)
\* results = search.search(query_value, indexes, config)
Search(records, field_name, config, query_value) ==
    /\ LET indexed == IndexRecords(Self, records, field_name, config)
           r == SearchIn([Self EXCEPT !.field_keys = indexed.field_keys],
                         query_value, indexed.index_map, config)
       IN /\ field_keys' = r.field_keys
          /\ last' = Call("search", <<records, field_name, config, query_value>>, "ok",
                          r.result)
    /\ UNCHANGED <<tenant_id, master_key, ope_key, prf, mapping_cache, encryption_key, search_key>>
    /\ UNCHANGED managerVars

---------------------------------------------------------------------------
(* order_preserving.py: Python integers have no width; a natural number is  *)
(* its digits in base Limb, least significant first, without leading zeros *)

LimbBits == 15
Limb == 2 ^ LimbBits

RECURSIVE Trim(_)
Trim(a) ==
    IF a # <<>> /\ a[Len(a)] = 0 THEN Trim(SubSeq(a, 1, Len(a) - 1)) ELSE a

RECURSIVE BigNat(_)
BigNat(n) == IF n = 0 THEN <<>> ELSE <<n % Limb>> \o BigNat(n \div Limb)

Digit(a, i) == IF i <= Len(a) THEN a[i] ELSE 0

\* the digits of a + b from the i-th on
RECURSIVE AddFrom(_, _, _, _)
AddFrom(a, b, i, carry) ==
    IF i > Len(a) /\ i > Len(b) THEN (IF carry = 0 THEN <<>> ELSE <<carry>>)
    ELSE LET x == Digit(a, i) + Digit(b, i) + carry
         IN <<x % Limb>> \o AddFrom(a, b, i + 1, x \div Limb)

BigAdd(a, b) == AddFrom(a, b, 1, 0)

\* the digits of a - b from the i-th on, for a >= b
RECURSIVE SubFrom(_, _, _, _)
SubFrom(a, b, i, borrow) ==
    IF i > Len(a) THEN <<>>
    ELSE LET x == Digit(a, i) - Digit(b, i) - borrow
         IN <<x % Limb>> \o SubFrom(a, b, i + 1, IF x < 0 THEN 1 ELSE 0)

BigSub(a, b) == Trim(SubFrom(a, b, 1, 0))

RECURSIVE LessFrom(_, _, _)
LessFrom(a, b, i) ==
    IF i = 0 THEN FALSE
    ELSE IF a[i] # b[i] THEN a[i] < b[i]
    ELSE LessFrom(a, b, i - 1)

BigLess(a, b) ==
    IF Len(a) # Len(b) THEN Len(a) < Len(b) ELSE LessFrom(a, b, Len(a))

BigLeq(a, b) == ~BigLess(b, a)

BigMin(a, b) == IF BigLess(b, a) THEN b ELSE a
BigMax(a, b) == IF BigLess(a, b) THEN b ELSE a

\* the digits of a * k from the i-th on, for one digit k
RECURSIVE MulDigitFrom(_, _, _, _)
MulDigitFrom(a, k, i, carry) ==
    IF i > Len(a) THEN (IF carry = 0 THEN <<>> ELSE <<carry>>)
    ELSE LET x == a[i] * k + carry
         IN <<x % Limb>> \o MulDigitFrom(a, k, i + 1, x \div Limb)

MulDigit(a, k) == IF k = 0 THEN <<>> ELSE MulDigitFrom(a, k, 1, 0)

ShiftLimb(a) == IF a = <<>> THEN <<>> ELSE <<0>> \o a

\* a * (the digits of b from the j-th on)
RECURSIVE MulFrom(_, _, _)
MulFrom(a, b, j) ==
    IF j > Len(b) THEN <<>>
    ELSE BigAdd(MulDigit(a, b[j]), ShiftLimb(MulFrom(a, b, j + 1)))

BigMul(a, b) == MulFrom(a, b, 1)

\* the largest digit q in lo..hi with d * q <= r
RECURSIVE QuotientDigit(_, _, _, _)
QuotientDigit(r, d, lo, hi) ==
    IF lo = hi THEN lo
    ELSE LET mid == (lo + hi + 1) \div 2
         IN IF BigLeq(MulDigit(d, mid), r) THEN QuotientDigit(r, d, mid, hi)
            ELSE QuotientDigit(r, d, lo, mid - 1)

\* long division of the digits a[1..i] still to bring down, remainder r so far
RECURSIVE DivModFrom(_, _, _, _, _)
DivModFrom(a, d, i, r, q) ==
    IF i = 0 THEN [quotient |-> Trim(q), remainder |-> r]
    ELSE LET r1 == Trim(<<a[i]>> \o r)
             digit == IF BigLess(r1, d) THEN 0 ELSE QuotientDigit(r1, d, 1, Limb - 1)
         IN DivModFrom(a, d, i - 1, BigSub(r1, MulDigit(d, digit)), <<digit>> \o q)

\* a // d and a % d for d > 0
BigDiv(a, d) == DivModFrom(a, d, Len(a), <<>>, <<>>).quotient
BigMod(a, d) == DivModFrom(a, d, Len(a), <<>>, <<>>).remainder

\* 1 << n
Pow2(n) ==
    [i \in 1..(n \div LimbBits + 1) |->
        IF i = n \div LimbBits + 1 THEN 2 ^ (n % LimbBits) ELSE 0]

---------------------------------------------------------------------------
(* OrderPreservingEncryption with the default widths                       *)

PlaintextBits == 32
CiphertextBits == 64

plaintext_max == BigSub(Pow2(PlaintextBits), <<1>>)
ciphertext_max == BigSub(Pow2(CiphertextBits), <<1>>)

\* a Python int: sign and absolute value (zero is not negative)
PyInt(negative, magnitude) == [negative |-> negative, magnitude |-> magnitude]

\* max(1, self.ciphertext_max // (self.plaintext_max * 10))
NoiseFactor == 10
noise_range == BigMax(<<1>>, BigDiv(ciphertext_max, BigMul(plaintext_max, BigNat(NoiseFactor))))

\* a float given in thousandths; int(plaintext * 10**precision) rounds
\* towards zero
Thousand == 1000

RECURSIVE Pow10(_)
Pow10(n) == IF n = 0 THEN <<1>> ELSE MulDigit(Pow10(n - 1), 10)

FixedPoint(plaintext, precision) ==
    LET magnitude == BigDiv(BigMul(plaintext.thousandths, Pow10(precision)), BigNat(Thousand))
    IN PyInt(plaintext.negative /\ magnitude # <<>>, magnitude)

\* the plaintexts, PRF values and floats the calls are made with
Plaintexts ==
    {PyInt(FALSE, <<>>), PyInt(FALSE, <<1>>),
     PyInt(FALSE, BigSub(plaintext_max, <<1>>)), PyInt(FALSE, plaintext_max)}

\* -1 and plaintext_max + 1
OutOfDomain == {PyInt(TRUE, <<1>>), PyInt(FALSE, BigAdd(plaintext_max, <<1>>))}

\* PRF values giving the least and the greatest noise: 0 and 2^64 - 37
PrfValues == {<<>>, BigSub(Pow2(CiphertextBits), BigNat(37))}

Float(negative, whole, thousandths) ==
    [negative |-> negative,
     thousandths |-> BigAdd(BigMul(BigNat(whole), BigNat(Thousand)), BigNat(thousandths))]

\* -0.001, 0.001, -0.01, 42949672.95, 42949672.96
Floats ==
    {Float(TRUE, 0, 1), Float(FALSE, 0, 1), Float(TRUE, 0, 10),
     Float(FALSE, 42949672, 950), Float(FALSE, 42949672, 960)}

Precisions == {2, 3}

\* as Ciphertext, with the PRF value added as it is
CiphertextNoiseNotReduced(plaintext, prf_value) ==
    LET base_mapping == BigDiv(BigMul(plaintext.magnitude, ciphertext_max), plaintext_max)
    IN BigMin(BigAdd(base_mapping, prf_value), ciphertext_max)

\* the mapping of a plaintext in range, prf_value being the first 8 bytes of
\* HMAC-SHA256(key, pack(">Q", plaintext)) as an integer
Ciphertext(plaintext, prf_value) ==
    LET base_mapping == BigDiv(BigMul(plaintext.magnitude, ciphertext_max), plaintext_max)
        noise == BigMod(prf_value, noise_range)
    IN BigMin(BigAdd(base_mapping, noise), ciphertext_max)

\* Ciphertext and FixedPoint of the values the calls are made with, worked
\* out once
CiphertextOf ==
    [plaintext \in Plaintexts |->
        [prf_value \in PrfValues |-> Ciphertext(plaintext, prf_value)]]

FixedPointOf ==
    [plaintext \in Floats |-> [precision \in Precisions |-> FixedPoint(plaintext, precision)]]

\* as DeterministicMap, caching the mapping before the noise is added
DeterministicMapCachesBase(cache, table, plaintext) ==
    IF plaintext.negative \/ BigLess(plaintext_max, plaintext.magnitude)
        THEN [outcome |-> "ValueError", ciphertext |-> None, cache |-> cache]
    ELSE IF plaintext \in DOMAIN cache
        THEN [outcome |-> "ok", ciphertext |-> cache[plaintext], cache |-> cache]
    ELSE [outcome |-> "ok",
          ciphertext |-> CiphertextOf[plaintext][table[plaintext]],
          \* the mapping with no noise
          cache |-> Put(cache, plaintext, CiphertextOf[plaintext][<<>>])]

DeterministicMap(cache, table, plaintext) ==
    IF plaintext.negative \/ BigLess(plaintext_max, plaintext.magnitude)
        THEN [outcome |-> "ValueError", ciphertext |-> None, cache |-> cache]
    ELSE IF plaintext \in DOMAIN cache
        THEN [outcome |-> "ok", ciphertext |-> cache[plaintext], cache |-> cache]
    ELSE LET ciphertext == CiphertextOf[plaintext][table[plaintext]]
         IN [outcome |-> "ok", ciphertext |-> ciphertext,
             cache |-> Put(cache, plaintext, ciphertext)]


EncryptFloatIn(cache, table, plaintext, precision) ==
    LET int_value == FixedPointOf[plaintext][precision]
    IN IF int_value.negative
           THEN [outcome |-> "ValueError", ciphertext |-> None, cache |-> cache]
       ELSE IF BigLess(plaintext_max, int_value.magnitude)
           THEN [outcome |-> "ValueError", ciphertext |-> None, cache |-> cache]
       ELSE DeterministicMap(cache, table, int_value)

AmountPrecision == 2

\* as RangeQueryIn, with the upper bound left out of the range
RangeQueryBelowMax(encrypted_values, min_val, max_val) ==
    LET AtLeast(v) == BigLeq(min_val[1], v)
        Below(v) == BigLess(v, max_val[1])
        lower == IF min_val # None THEN SelectSeq(encrypted_values, AtLeast)
                 ELSE encrypted_values
    IN IF max_val # None THEN SelectSeq(lower, Below) ELSE lower

\* [v for v in result if v >= min_val], [v for v in result if v <= max_val]
RangeQueryIn(encrypted_values, min_val, max_val) ==
    LET AtLeast(v) == BigLeq(min_val[1], v)
        AtMost(v) == BigLeq(v, max_val[1])
        lower == IF min_val # None THEN SelectSeq(encrypted_values, AtLeast)
                 ELSE encrypted_values
    IN IF max_val # None THEN SelectSeq(lower, AtMost) ELSE lower

EncryptInt(plaintext) ==
    /\ LET r == DeterministicMap(mapping_cache, prf, plaintext)
       IN /\ mapping_cache' = r.cache
          /\ last' = Call("encrypt_int", <<plaintext>>, r.outcome, r.ciphertext)
    /\ UNCHANGED <<tenant_id, master_key, field_keys, ope_key, prf, encryption_key, search_key>>
    /\ UNCHANGED managerVars

EncryptFloat(plaintext, precision) ==
    /\ LET r == EncryptFloatIn(mapping_cache, prf, plaintext, precision)
       IN /\ mapping_cache' = r.cache
          /\ last' = Call("encrypt_float", <<plaintext, precision>>, r.outcome, r.ciphertext)
    /\ UNCHANGED <<tenant_id, master_key, field_keys, ope_key, prf, encryption_key, search_key>>
    /\ UNCHANGED managerVars

EncryptAmount(amount) ==
    /\ LET r == EncryptFloatIn(mapping_cache, prf, amount, AmountPrecision)
       IN /\ mapping_cache' = r.cache
          /\ last' = Call("encrypt_amount", <<amount, AmountPrecision>>, r.outcome,
                          r.ciphertext)
    /\ UNCHANGED <<tenant_id, master_key, field_keys, ope_key, prf, encryption_key, search_key>>
    /\ UNCHANGED managerVars

ClearCache ==
    /\ mapping_cache' = EmptyDict
    /\ last' = Call("clear_cache", <<>>, "ok", <<>>)
    /\ UNCHANGED <<tenant_id, master_key, field_keys, ope_key, prf, encryption_key, search_key>>
    /\ UNCHANGED managerVars

\* [ope.encrypt_int(s) for s in plaintexts], in order
RECURSIVE EncryptAll(_, _, _, _, _)
EncryptAll(cache, table, plaintexts, i, encrypted) ==
    IF i > Len(plaintexts) THEN [encrypted |-> encrypted, cache |-> cache]
    ELSE LET r == DeterministicMap(cache, table, plaintexts[i])
         IN EncryptAll(r.cache, table, plaintexts, i + 1, Append(encrypted, r.ciphertext))

\* encrypted = [ope.encrypt_int(s) for s in plaintexts]
\* ope.range_query(encrypted, ope.encrypt_int(lo), ope.encrypt_int(hi)),
\* a bound that is None being passed as None
RangeQuery(plaintexts, lo, hi) ==
    /\ LET values == EncryptAll(mapping_cache, prf, plaintexts, 1, <<>>)
           bounds == EncryptAll(values.cache, prf, lo \o hi, 1, <<>>)
           min_val == IF lo # None THEN Some(bounds.encrypted[1]) ELSE None
           max_val == IF hi # None THEN Some(bounds.encrypted[Len(bounds.encrypted)])
                      ELSE None
       IN /\ mapping_cache' = bounds.cache
          /\ last' = Call("range_query", <<plaintexts, lo, hi>>, "ok",
                          [encrypted |-> values.encrypted,
                           result |-> RangeQueryIn(values.encrypted, min_val, max_val)])
    /\ UNCHANGED <<tenant_id, master_key, field_keys, ope_key, prf, encryption_key, search_key>>
    /\ UNCHANGED managerVars

---------------------------------------------------------------------------
(* OrderPreservingEncryption(key, plaintext_bits, ciphertext_bits) with     *)
(* widths of the caller's choice                                            *)

\* (1 << bits) - 1
MaxOf(bits) == BigSub(Pow2(bits), <<1>>)

\* _deterministic_map of a new instance with these widths, prf_value being
\* what the PRF yields for the plaintext; a plaintext_max of 0 makes the
\* division of the base mapping raise ZeroDivisionError
DeterministicMapWith(plaintext_bits, ciphertext_bits, plaintext, prf_value) ==
    LET p_max == MaxOf(plaintext_bits)
        c_max == MaxOf(ciphertext_bits)
    IN IF plaintext.negative \/ BigLess(p_max, plaintext.magnitude)
           THEN [outcome |-> "ValueError", ciphertext |-> None]
       ELSE IF p_max = <<>>
           THEN [outcome |-> "ZeroDivisionError", ciphertext |-> None]
       ELSE LET base_mapping == BigDiv(BigMul(plaintext.magnitude, c_max), p_max)
                range == BigMax(<<1>>, BigDiv(c_max, BigMul(p_max, BigNat(NoiseFactor))))
                noise == BigMod(prf_value, range)
            IN [outcome |-> "ok",
                ciphertext |-> Some(BigMin(BigAdd(base_mapping, noise), c_max))]

\* the widths (plaintext_bits, ciphertext_bits), plaintexts and PRF values
\* the calls are made with: PRF values that give the least and the largest
\* noise
Widths == {<<0, 4>>, <<1, 0>>, <<1, 5>>, <<2, 1>>, <<2, 2>>, <<2, 7>>}

SmallInts(plaintext_bits) == {PyInt(FALSE, BigNat(n)) : n \in 0..(2 ^ plaintext_bits - 1)}

WidthPrfValues == {<<>>, <<2>>, BigSub(Pow2(CiphertextBits), BigNat(37))}

\* DeterministicMapWith of these values, worked out once
DeterministicMapOf ==
    [w \in Widths |->
        [plaintext \in SmallInts(w[1]) |->
            [prf_value \in WidthPrfValues |->
                DeterministicMapWith(w[1], w[2], plaintext, prf_value)]]]

\* ope = OrderPreservingEncryption(key, plaintext_bits, ciphertext_bits);
\* ope.encrypt_int(a), then ope.encrypt_int(b) if that returned
EncryptPair(plaintext_bits, ciphertext_bits, a, b, prf_a, prf_b) ==
    /\ LET first == DeterministicMapOf[<<plaintext_bits, ciphertext_bits>>][a][prf_a]
           second == DeterministicMapOf[<<plaintext_bits, ciphertext_bits>>][b][prf_b]
       IN last' = Call("encrypt_int with widths",
                       <<plaintext_bits, ciphertext_bits, a, b, prf_a, prf_b>>,
                       IF first.outcome # "ok" THEN first.outcome ELSE second.outcome,
                       <<first.ciphertext, second.ciphertext>>)
    /\ UNCHANGED codecVars
    /\ UNCHANGED managerVars

---------------------------------------------------------------------------
(* SearchableEncryption: an instance is encryption_key and search_key; a    *)
(* str is a sequence of code points                                         *)

\* text.split(): the maximal runs of characters that are not whitespace
RECURSIVE SplitFrom(_, _, _, _)
SplitFrom(text, i, word, words) ==
    IF i > Len(text) THEN (IF word = <<>> THEN words ELSE Append(words, word))
    ELSE IF IsSpace(text[i])
        THEN SplitFrom(text, i + 1, <<>>, IF word = <<>> THEN words ELSE Append(words, word))
    ELSE SplitFrom(text, i + 1, Append(word, text[i]), words)

Split(text) == SplitFrom(text, 1, <<>>, <<>>)

\* w.strip(chars)
RECURSIVE LStripChars(_, _)
LStripChars(w, chars) ==
    IF w # <<>> /\ Head(w) \in chars THEN LStripChars(Tail(w), chars) ELSE w

RECURSIVE RStripChars(_, _)
RStripChars(w, chars) ==
    IF w # <<>> /\ w[Len(w)] \in chars
        THEN RStripChars(SubSeq(w, 1, Len(w) - 1), chars) ELSE w

StripChars(w, chars) == RStripChars(LStripChars(w, chars), chars)

\* {"the", "a", "an", "and", "or", "but", "in", "on", "at", "to", "for"}
stop_words ==
    {<<116, 104, 101>>, <<97>>, <<97, 110>>, <<97, 110, 100>>, <<111, 114>>,
     <<98, 117, 116>>, <<105, 110>>, <<111, 110>>, <<97, 116>>, <<116, 111>>,
     <<102, 111, 114>>}

\* the characters of '.,!?;:"()[]{}'
Punctuation == {46, 44, 33, 63, 59, 58, 34, 40, 41, 91, 93, 123, 125}

MinKeywordLength == 2

\* {w.strip(...) for w in words if len(w) > 2 and w not in stop_words}
ExtractKeywords(text) ==
    LET words == Split(Lower(text))
    IN {StripChars(words[i], Punctuation) :
            i \in {j \in 1..Len(words) :
                      Len(words[j]) > MinKeywordLength /\ words[j] \notin stop_words}}

\* as GenerateSearchToken, without keyword.lower()
GenerateSearchTokenAsGiven(key, keyword) ==
    Base64Encode(HmacSha256(key, Utf8(keyword)))

GenerateSearchToken(key, keyword) ==
    Base64Encode(HmacSha256(key, Utf8(Lower(keyword))))

IvSize == 12
TagSize == 16
MinIvSize == 8

\* AES-256-GCM under key and iv: the ciphertext has one byte per plaintext
\* byte and the tag 16 bytes; each is determined by (key, iv, plaintext)
\* and by nothing else
GcmCiphertext(key, iv, plaintext) ==
    LET origin == <<"gcm", BytesId(key), BytesId(iv), plaintext>>
    IN [i \in 1..Len(plaintext) |-> [origin |-> origin, byte |-> i]]

GcmTag(key, iv, plaintext) ==
    LET origin == <<"gcm-tag", BytesId(key), BytesId(iv), plaintext>>
    IN [i \in 1..TagSize |-> [origin |-> origin, byte |-> i]]

\* the plaintexts that (iv, tag, ciphertext) authenticate under key: the one
\* they were made from, or none
GcmOpen(key, iv, tag, ciphertext) ==
    IF /\ Len(tag) = TagSize
       /\ tag[1].origin[1] = "gcm-tag"
       /\ Len(tag[1].origin) = 4
        THEN LET plaintext == tag[1].origin[4]
             IN IF /\ tag = GcmTag(key, iv, plaintext)
                   /\ ciphertext = GcmCiphertext(key, iv, plaintext)
                    THEN {plaintext}
                ELSE {}
    ELSE {}

Instance(enc_key, s_key) == [encryption_key |-> enc_key, search_key |-> s_key]

\* encrypt_document(document, auto_extract_keywords, keywords) of a str, with
\* iv what os.urandom(12) returns
EncryptDocumentIn(self, document, auto_extract_keywords, keywords, iv) ==
    LET plaintext == Utf8(document)
        doc_keywords == IF auto_extract_keywords THEN ExtractKeywords(document)
                        ELSE keywords
    IN [encrypted_doc |-> iv \o GcmTag(self.encryption_key, iv, plaintext)
                             \o GcmCiphertext(self.encryption_key, iv, plaintext),
        search_tokens |-> {GenerateSearchToken(self.search_key, kw) : kw \in doc_keywords}]

\* s[a:b] with 0 <= a <= b
Slice(s, a, b) ==
    SubSeq(s, (IF a < Len(s) THEN a ELSE Len(s)) + 1, IF b < Len(s) THEN b ELSE Len(s))

\* as DecryptDocumentIn, with the tag taken to be 12 bytes
DecryptDocumentShortTag(self, encrypted_document) ==
    LET iv == Slice(encrypted_document, 0, IvSize)
        tag == Slice(encrypted_document, IvSize, IvSize + 12)
        ciphertext == Slice(encrypted_document, IvSize + 12, Len(encrypted_document))
        opened == GcmOpen(self.encryption_key, iv, tag, ciphertext)
    IN IF Len(iv) < MinIvSize \/ Len(tag) < TagSize \/ opened = {}
           THEN [outcome |-> "ValueError", plaintext |-> None]
       ELSE [outcome |-> "ok", plaintext |-> Some(CHOOSE x \in opened : TRUE)]

\* modes.GCM(iv, tag) raises ValueError for an iv under 8 bytes or a tag
\* under 16; a failed authentication is raised as ValueError
DecryptDocumentIn(self, encrypted_document) ==
    LET iv == Slice(encrypted_document, 0, IvSize)
        tag == Slice(encrypted_document, IvSize, IvSize + TagSize)
        ciphertext == Slice(encrypted_document, IvSize + TagSize, Len(encrypted_document))
        opened == GcmOpen(self.encryption_key, iv, tag, ciphertext)
    IN IF Len(iv) < MinIvSize \/ Len(tag) < TagSize \/ opened = {}
           THEN [outcome |-> "ValueError", plaintext |-> None]
       ELSE [outcome |-> "ok", plaintext |-> Some(CHOOSE x \in opened : TRUE)]

\* query_token in document_tokens
SearchTokens(query_token, document_tokens) == query_token \in document_tokens

This == Instance(encryption_key, search_key)

\* self._extract_keywords(text)
ExtractKeywordsCall(text) ==
    /\ last' = Call("_extract_keywords", <<text>>, "ok", ExtractKeywords(text))
    /\ UNCHANGED codecVars
    /\ UNCHANGED managerVars

\* self.encrypt_document(document)
EncryptDocument(document, iv) ==
    /\ last' = Call("encrypt_document", <<document, iv>>, "ok",
                    EncryptDocumentIn(This, document, TRUE, {}, iv))
    /\ UNCHANGED codecVars
    /\ UNCHANGED managerVars

\* self.search(self.generate_search_query(keyword),
\*             self.encrypt_document(document)[1])
SearchDocument(document, iv, keyword) ==
    /\ last' = Call("searchable.search", <<document, iv, keyword>>, "ok",
                    SearchTokens(GenerateSearchToken(search_key, keyword),
                                 EncryptDocumentIn(This, document, TRUE, {}, iv).search_tokens))
    /\ UNCHANGED codecVars
    /\ UNCHANGED managerVars

\* reader.decrypt_document(received), where received is what has become of
\* self.encrypt_document(document)[0] and reader is this instance or one
\* with another encryption key
DecryptDocument(document, iv, received, reader_key) ==
    /\ LET r == DecryptDocumentIn(Instance(reader_key, search_key), received)
       IN last' = Call("decrypt_document", <<document, iv, received, reader_key>>,
                       r.outcome, r.plaintext)
    /\ UNCHANGED codecVars
    /\ UNCHANGED managerVars

---------------------------------------------------------------------------
(* The manager after construction, and its calls *)

ManagerInit ==
    /\ keys = EmptyDict
    /\ metadata = EmptyDict
    /\ audit_log = <<>>
    /\ now = 0
    /\ bundles = {}
    /\ threads = EmptyDict

\* no codec has been constructed
NoCodec ==
    /\ tenant_id = None
    /\ master_key = None
    /\ field_keys = EmptyDict
    /\ ope_key = None
    /\ prf = EmptyDict
    /\ mapping_cache = EmptyDict
    /\ encryption_key = None
    /\ search_key = None

Init ==
    /\ ManagerInit
    /\ NoCodec
    /\ last = Call("init", StarId, "ok", <<>>)

\* a call is taken while the log has room for the entries it can write
Room(n) == Len(audit_log) + n <= MaxLog

Lifecycle(requests, digests, ids, pool) ==
    \/ /\ Room(1)
       /\ \E r \in requests, digest \in digests :
              \E key \in Urandom(pool, r.key_size) :
                  CreateKey(r.key_type, r.key_size, r.rotation_period_days, digest, key)
    \/ /\ Room(1)
       /\ \E key_id \in ids : GetKey(key_id)
    \/ /\ Room(2)
       /\ \E key_id \in ids, digest \in digests :
              \E key \in UNION {Urandom(pool, n) : n \in KeySizes} :
                  RotateKey(key_id, digest, key)
    \/ /\ Room(1)
       /\ \E key_id \in ids : DeleteKey(key_id)

Expiry(ids) ==
    \E key_id \in ids, expires_at \in ExpiryTimes : SetExpiresAt(key_id, expires_at)

Clock ==
    /\ now < MaxTime
    /\ Tick

Bundling(passwords) ==
    \/ \E password \in passwords, salt \in Salts, nonce \in Nonces :
           ExportKeys(password, salt, nonce)
    \/ /\ Room(1)
       /\ \E b \in bundles : \E c \in ImportCalls(b) : ImportKeys(c.bundle, c.password)
    \/ \E bundle \in bundles, password \in Passwords : ImportFresh(bundle, password)

\* every manager operation, under a running clock
Next ==
    \/ Lifecycle(OpeRequests, Digests, OpeIds, {77})
    \/ Clock
    \/ Bundling({"pw"})

Spec == Init /\ [][Next]_vars

\* the key lifecycle with every kind of request, and expiry dates
NextLifecycle ==
    \/ Lifecycle(CreateRequests, Digests, KeyIds, ByteVals)
    \/ Expiry(KeyIds)

SpecLifecycle == Init /\ [][NextLifecycle]_vars

\* export and import with varied key material
NextRound ==
    \/ Lifecycle(CreateRequests, Digests, KeyIds, {77})
    \/ Bundling({"pw"})

SpecRound == Init /\ [][NextRound]_vars

\* the key lifecycle with keys of every age around their rotation period
Ages == {-1, TicksPerDay - 1, 2 * TicksPerDay}

Backdating(ids) ==
    \E key_id \in ids, age \in Ages : SetLastRotated(key_id, age)

NextRotation ==
    \/ Lifecycle(CreateRequests, {"a1"}, KeyIds, {77})
    \/ Backdating(KeyIds)
    \/ Clock

SpecRotation == Init /\ [][NextRotation]_vars

---------------------------------------------------------------------------
(* A blind index generator after construction, and its calls *)

Tenants == {<<97>>, <<97, 58, 98>>}              \* "a", "a:b"
FieldNames == {<<99>>, <<98, 58, 99>>}           \* "c", "b:c"
Values == {<<97>>, <<32, 65313>>, <<98>>}        \* "a", " A" with a fullwidth A, "b"
\* field_name, output_length, case_sensitive, unicode_normalize
Configs ==
    {BlindIndexConfig(<<99>>, 16, FALSE, "NFKC"),
     BlindIndexConfig(<<98, 58, 99>>, 16, FALSE, "NFKC"),
     BlindIndexConfig(<<99>>, 33, TRUE, ""),
     BlindIndexConfig(<<99>>, 0, FALSE, "NFKC")}
MasterKeys == {RandomBytes("k1", 32), RandomBytes("k2", 32)}
ShortKeys == {RandomBytes("k3", 31)}

Record(field_name, value) == [f \in {field_name} |-> value]

RecordSets ==
    {<<<<"r1", Record(<<99>>, Some(<<97>>))>>, <<"r2", Record(<<99>>, Some(<<32, 65313>>))>>>>,
     <<<<"r1", Record(<<99>>, Some(<<97>>))>>, <<"r2", Record(<<99>>, Some(<<98>>))>>,
       <<"r3", EmptyDict>>, <<"r4", Record(<<99>>, None)>>>>}

InitBlindIndex ==
    /\ ManagerInit
    /\ tenant_id \in Tenants
    /\ master_key = RandomBytes("k1", 32)
    /\ field_keys = EmptyDict
    /\ ope_key = None
    /\ prf = EmptyDict
    /\ mapping_cache = EmptyDict
    /\ encryption_key = None
    /\ search_key = None
    /\ last = Call("init", <<>>, "ok", <<>>)

NextBlindIndex ==
    \/ \E value \in Values, config \in Configs : CreateIndex(value, config)
    \/ \E value \in Values, config \in Configs : CreateIndexRaw(value, config)
    \/ \E new_master_key \in MasterKeys \cup ShortKeys : BlindIndexRotateKey(new_master_key)
    \/ \E records \in RecordSets, config \in Configs, query_value \in Values :
           Search(records, <<99>>, config, query_value)

SpecBlindIndex == InitBlindIndex /\ [][NextBlindIndex]_vars

---------------------------------------------------------------------------
(* An order-preserving codec after construction, and its calls *)

PlaintextLists ==
    {<<PyInt(FALSE, plaintext_max), PyInt(FALSE, <<>>), PyInt(FALSE, <<1>>),
       PyInt(FALSE, <<1>>)>>,
     <<PyInt(FALSE, <<1>>), PyInt(FALSE, BigSub(plaintext_max, <<1>>)), PyInt(FALSE, <<>>)>>}

QueryBounds == {None, Some(PyInt(FALSE, <<1>>)), Some(PyInt(FALSE, BigSub(plaintext_max, <<1>>)))}

InitOpe ==
    /\ ManagerInit
    /\ tenant_id = None
    /\ master_key = None
    /\ field_keys = EmptyDict
    /\ ope_key = RandomBytes("k1", 32)
    /\ prf \in [Plaintexts -> PrfValues]
    /\ mapping_cache = EmptyDict
    /\ encryption_key = None
    /\ search_key = None
    /\ last = Call("init", <<>>, "ok", <<>>)

NextOpe ==
    \/ \E plaintext \in Plaintexts \cup OutOfDomain : EncryptInt(plaintext)
    \/ \E plaintext \in Floats, precision \in Precisions : EncryptFloat(plaintext, precision)
    \/ \E amount \in Floats : EncryptAmount(amount)
    \/ ClearCache
    \/ \E plaintexts \in PlaintextLists, lo \in QueryBounds, hi \in QueryBounds :
           /\ (lo # None /\ hi # None) => BigLeq(lo[1].magnitude, hi[1].magnitude)
           /\ RangeQuery(plaintexts, lo, hi)

SpecOpe == InitOpe /\ [][NextOpe]_vars

\* every manager operation, with import_keys given only bundles that
\* export_keys produced, under the export password or another
HonestBundling ==
    \/ \E password \in {"pw"}, salt \in Salts, nonce \in Nonces :
           ExportKeys(password, salt, nonce)
    \/ /\ Room(1)
       /\ \E bundle \in bundles, password \in Passwords : ImportKeys(bundle, password)
    \/ \E bundle \in bundles, password \in Passwords : ImportFresh(bundle, password)

NextHonest ==
    \/ Lifecycle(CreateRequests, Digests, KeyIds, {77})
    \/ HonestBundling

SpecHonest == Init /\ [][NextHonest]_vars

\* two threads that each call get_key once on a manager whose keys were
\* created before; delete_key can run at any time
ThreadIds == {"t1", "t2"}

NextThreads ==
    \/ /\ threads = EmptyDict
       /\ Room(1)
       /\ \E digest \in Digests : CreateKey("det", 1, DefaultRotationPeriodDays, digest, <<77>>)
    \/ /\ Room(1)
       /\ \E key_id \in {"det"} \X Digests : DeleteKey(key_id)
    \/ /\ Room(Cardinality(InProgress) + 1)
       /\ \E t \in ThreadIds, key_id \in {"det"} \X Digests : GetKeyBegin(t, key_id)
    \/ \E t \in ThreadIds : GetKeyRead(t)
    \/ \E t \in ThreadIds : GetKeyWrite(t)
    \/ \E t \in ThreadIds : GetKeyReturn(t)

SpecThreads == Init /\ [][NextThreads]_vars

\* one key rotated again and again: create_key, rotate_key and delete_key
\* with three digests, while the audit log is shorter than MaxRotateLog
MaxRotateLog == 5

RotateDigests == {"a1", "b2", "c3"}

RotateIds == {"det"} \X RotateDigests

RotateRoom(n) == Len(audit_log) + n <= MaxRotateLog

NextRerotate ==
    \/ /\ RotateRoom(1)
       /\ \E digest \in RotateDigests :
              CreateKey("det", 1, DefaultRotationPeriodDays, digest, <<77>>)
    \/ /\ RotateRoom(2)
       /\ \E key_id \in RotateIds, digest \in RotateDigests : RotateKey(key_id, digest, <<77>>)
    \/ /\ RotateRoom(1)
       /\ \E key_id \in RotateIds : DeleteKey(key_id)

SpecRerotate == Init /\ [][NextRerotate]_vars

\* the order-preserving codec with other widths: every pair a < b of
\* plaintexts of the domain, and a alone when the domain has one value
NextWidths ==
    \E w \in Widths :
        \E a \in SmallInts(w[1]), b \in SmallInts(w[1]) :
            \E prf_a \in WidthPrfValues, prf_b \in WidthPrfValues :
                /\ \/ BigLess(a.magnitude, b.magnitude)
                   \/ a = b /\ prf_a = prf_b /\ w[1] = 0
                /\ EncryptPair(w[1], w[2], a, b, prf_a, prf_b)

InitWidths ==
    /\ ManagerInit
    /\ NoCodec
    /\ last = Call("init", <<>>, "ok", <<>>)

SpecWidths == InitWidths /\ [][NextWidths]_vars

\* searchable encryption: documents are words separated by single spaces;
\* the words "aN.", "(a)", "the", "The,", "Cat", "cat", "to" in these orders
WordLists ==
    {<<>>,
     <<<<97, 78, 46>>>>,
     <<<<40, 97, 41>>>>,
     <<<<84, 104, 101, 44>>>>,
     <<<<67, 97, 116>>, <<116, 104, 101>>>>,
     <<<<116, 104, 101>>, <<67, 97, 116>>>>,
     <<<<99, 97, 116>>, <<116, 111>>>>,
     <<<<116, 111>>, <<99, 97, 116>>>>,
     <<<<67, 97, 116>>, <<99, 97, 116>>>>,
     <<<<97, 78, 46>>, <<40, 97, 41>>>>}

RECURSIVE Join(_)
Join(words) ==
    IF words = <<>> THEN <<>>
    ELSE IF Len(words) = 1 THEN words[1]
    ELSE words[1] \o <<32>> \o Join(Tail(words))

Documents == {Join(words) : words \in WordLists}

\* "cat", "CAT", "the", "an", "a", "dog"
QueryWords ==
    {<<99, 97, 116>>, <<67, 65, 84>>, <<116, 104, 101>>, <<97, 110>>, <<97>>,
     <<100, 111, 103>>}

Ivs == {RandomBytes("iv1", IvSize)}

EncryptionKeys == {RandomBytes("e1", 32), RandomBytes("e2", 32)}

\* what can reach the reader: the encrypted document as it is, with one byte
\* of the iv, of the tag or of the ciphertext replaced, or cut short
Replaced(bytes, i) == [bytes EXCEPT ![i] = [origin |-> <<"urandom", "x">>, byte |-> i]]

Received(encrypted_doc) ==
    {encrypted_doc, Prefix(encrypted_doc, 7), Prefix(encrypted_doc, 27)}
        \cup {Replaced(encrypted_doc, i) :
                  i \in {1, IvSize + 1, IvSize + TagSize + 1} \cap DOMAIN encrypted_doc}
        \cup {Prefix(encrypted_doc, Len(encrypted_doc) - 1)}

InitSearchable ==
    /\ ManagerInit
    /\ tenant_id = None
    /\ master_key = None
    /\ field_keys = EmptyDict
    /\ ope_key = None
    /\ prf = EmptyDict
    /\ mapping_cache = EmptyDict
    /\ encryption_key = RandomBytes("e1", 32)
    /\ search_key = RandomBytes("s1", 32)
    /\ last = Call("init", <<>>, "ok", <<>>)

NextSearchable ==
    \/ \E text \in Documents : ExtractKeywordsCall(text)
    \/ \E document \in Documents, iv \in Ivs : EncryptDocument(document, iv)
    \/ \E document \in Documents, iv \in Ivs, keyword \in QueryWords :
           SearchDocument(document, iv, keyword)
    \/ \E document \in Documents, iv \in Ivs, reader_key \in EncryptionKeys :
           \E received \in Received(EncryptDocumentIn(This, document, TRUE, {}, iv).encrypted_doc) :
               DecryptDocument(document, iv, received, reader_key)

SpecSearchable == InitSearchable /\ [][NextSearchable]_vars

---------------------------------------------------------------------------
(* Properties *)

IsPrefix(s, t) == Len(s) <= Len(t) /\ SubSeq(t, 1, Len(s)) = s

Known(key_id) == key_id \in DOMAIN keys /\ key_id \in DOMAIN metadata

FailedGet(e, key_id) == e.key_id = key_id /\ e.operation = "get" /\ ~e.success

SuccessfulGet(e, key_id) == e.key_id = key_id /\ e.operation = "get" /\ e.success

\* the step is a call of op (every call writes last)
Called(op) == last'.op = op

\* C1: a key record whose active flag has become false never has active = true
\* again, whatever manager operation runs (a create_key that returns the id
\* makes a new record and is C7's matter)
C1_InactiveIsTerminal ==
    [][\A k \in DOMAIN metadata \cap DOMAIN metadata' :
           (/\ ~metadata[k].active
            /\ ~(last'.op \in {"create_key", "rotate_key"} /\ last'.ret = k))
               => ~metadata'[k].active]_vars

\* C2 as stated: a get_key call that fails leaves the key map, every record's
\* metadata and the audit log exactly as before
C2_FailedGetChangesNothing ==
    [][(Called("get_key") /\ last'.outcome # "ok")
           => /\ keys' = keys
              /\ metadata' = metadata
              /\ audit_log' = audit_log]_vars

\* C2 as amended: a get_key call that fails because the id is not in the key
\* map, or the record is inactive or expired, leaves the key map and every
\* record's metadata as before and appends exactly one entry to the audit
\* log, a failed 'get' for that key_id
C2_FailedGetOnlyLogs ==
    [][(/\ Called("get_key")
        /\ last'.outcome # "ok"
        /\ (last'.key_id \notin DOMAIN keys \/ last'.key_id \in DOMAIN metadata))
           => /\ keys' = keys
              /\ metadata' = metadata
              /\ Len(audit_log') = Len(audit_log) + 1
              /\ IsPrefix(audit_log, audit_log')
              /\ FailedGet(audit_log'[Len(audit_log')], last'.key_id)]_vars

C2_Witness ==
    /\ last.op = "get_key"
    /\ last.outcome = "Expired"
    /\ audit_log # <<>>
    /\ FailedGet(audit_log[Len(audit_log)], last.key_id)

C4_RotateCreatesSuccessor ==
    [][(Called("rotate_key") /\ last'.outcome = "ok") =>
           LET k == last'.key_id
               n == last'.ret
           IN /\ n # k
              /\ ~metadata'[k].active
              /\ DOMAIN metadata' \ DOMAIN metadata = {n}
              /\ DOMAIN keys' \ DOMAIN keys = {n}
              /\ metadata'[n].active
              /\ metadata'[n].key_type = metadata[k].key_type
              /\ metadata'[n].rotation_period_days = metadata[k].rotation_period_days
              /\ Len(keys'[n]) = Len(keys[k])]_vars

\* C5: export_keys(password) then import_keys(bundle, password) into a fresh
\* manager succeeds and leaves it with exactly the exporting manager's
\* key_ids, each with the same raw bytes and the same active flag
C5_ExportImportRoundTrip ==
    (/\ last.op = "import_fresh"
     /\ last.ret[2] = ExportPassword(last.ret[1]))
        => LET origin == last.ret[1].origin
               m == last.ret[3]
           IN /\ last.outcome = "ok"
              /\ DOMAIN m.keys = DOMAIN origin.keys
              /\ DOMAIN m.metadata = DOMAIN origin.metadata
              /\ \A k \in DOMAIN origin.keys : m.keys[k] = origin.keys[k]
              /\ \A k \in DOMAIN origin.metadata :
                     m.metadata[k].active = origin.metadata[k].active

\* two keys of different sizes, one of them inactive, came through
C5_Witness ==
    /\ last.op = "import_fresh"
    /\ last.outcome = "ok"
    /\ \E j, k \in DOMAIN last.ret[3].keys :
           /\ Len(last.ret[3].keys[j]) # Len(last.ret[3].keys[k])
           /\ last.ret[3].metadata[j].active
           /\ ~last.ret[3].metadata[k].active

\* C6: an import_keys call that fails leaves the key map, the metadata map
\* and the audit log exactly as before
C6_FailedImportChangesNothing ==
    [][(Called("import_keys") /\ last'.outcome # "ok")
           => /\ keys' = keys
              /\ metadata' = metadata
              /\ audit_log' = audit_log]_vars

\* C7: the id create_key returns, also inside rotate_key, was not in the
\* manager before the call
C7_CreatedIdIsNew ==
    [][((Called("create_key") \/ Called("rotate_key")) /\ last'.outcome = "ok")
           => /\ last'.ret \notin DOMAIN keys
              /\ last'.ret \notin DOMAIN metadata]_vars

\* C8: the audit log before any manager operation is a prefix of the log
\* after it, and the entries' timestamps never decrease along the log
C8_AuditLogAppendOnly ==
    [][/\ IsPrefix(audit_log, audit_log')
       /\ \A i, j \in 1..Len(audit_log') :
              i < j => FromIsoFormat(audit_log'[i].timestamp)
                           <= FromIsoFormat(audit_log'[j].timestamp)]_vars

\* a log of three entries written at two clock readings, the last by import
C8_Witness ==
    /\ Len(audit_log) = 3
    /\ audit_log[3].operation = "import"
    /\ audit_log[1].timestamp # audit_log[3].timestamp

\* C9: for every limit >= 0 and optional key_id filter, get_audit_log returns
\* at most limit entries: the most recent ones matching the filter, most
\* recent first
AuditLimits == {0, 1, 2, 100}

C9_AuditLogQuery ==
    \A limit \in AuditLimits, filter \in {NoFilter} \cup KeyIds :
        LET Matches(e) == filter = NoFilter \/ e.key_id = filter
            matching == SelectSeq(audit_log, Matches)
            r == GetAuditLog(audit_log, filter, limit)
        IN /\ Len(r) <= limit
           /\ Len(r) = IF Len(matching) < limit THEN Len(matching) ELSE limit
           /\ \A i \in 1..Len(r) : r[i] = matching[Len(matching) + 1 - i]

\* C10: a successful get_key(k) adds 1 to k's access_count, appends one
\* successful 'get' entry for k and changes nothing else; the access_count of
\* a record is the number of successful gets since the create_key that made it
GetsSinceCreate(log, k) ==
    LET created == {i \in 1..Len(log) : log[i].key_id = k /\ log[i].operation = "create"}
        from == IF created = {} THEN 0
                ELSE CHOOSE i \in created : \A j \in created : j <= i
    IN Cardinality({i \in (from + 1)..Len(log) : SuccessfulGet(log[i], k)})

C10_SuccessfulGetCounts ==
    [][/\ (Called("get_key") /\ last'.outcome = "ok") =>
              LET k == last'.key_id
              IN /\ metadata'[k].access_count = metadata[k].access_count + 1
                 /\ metadata' = [metadata EXCEPT ![k].access_count = metadata'[k].access_count]
                 /\ keys' = keys
                 /\ Len(audit_log') = Len(audit_log) + 1
                 /\ IsPrefix(audit_log, audit_log')
                 /\ SuccessfulGet(audit_log'[Len(audit_log')], k)
       /\ \A k \in DOMAIN metadata' :
              metadata'[k].access_count = GetsSinceCreate(audit_log', k)]_vars

\* a successful get of one key while another record exists
C10_Witness ==
    /\ last.op = "get_key"
    /\ last.outcome = "ok"
    /\ Cardinality(DOMAIN metadata) >= 2
    /\ metadata[last.key_id].access_count = 1

\* C11: get_keys_needing_rotation returns, each once, exactly the ids whose
\* record is active and whose time since last_rotated is at least the
\* record's rotation period; an inactive record is never returned
C11_KeysNeedingRotation ==
    LET r == GetKeysNeedingRotation(metadata, now)
        due == {k \in DOMAIN metadata :
                   /\ metadata[k].active
                   /\ now - metadata[k].last_rotated
                          >= metadata[k].rotation_period_days * TicksPerDay}
    IN /\ {r[i] : i \in 1..Len(r)} = due
       /\ Len(r) = Cardinality(due)

\* one active key exactly at its period is returned while an inactive key
\* past its period is not
C11_Witness ==
    LET r == GetKeysNeedingRotation(metadata, now)
        returned == {r[i] : i \in 1..Len(r)}
        Age(k) == now - metadata[k].last_rotated
        Period(k) == metadata[k].rotation_period_days * TicksPerDay
    IN /\ \E k \in returned : Age(k) = Period(k)
       /\ \E k \in DOMAIN metadata \ returned : ~metadata[k].active /\ Age(k) > Period(k)

\* C12: under one master key the field key is scoped to (tenant_id,
\* field_name): the key cached for a field differs from the key derived for
\* any other (tenant, field) pair, and the index of a value (of at least one
\* byte) differs from the index of the same value under any other pair
C12_FieldKeyScoped ==
    /\ \A f1 \in DOMAIN field_keys : \A t2 \in Tenants, f2 \in FieldNames :
           <<tenant_id, f1>> # <<t2, f2>>
               => field_keys[f1] # DeriveFieldKey(Generator(t2, master_key), f2).key
    /\ (last.op = "create_index" /\ last.key_id[2].output_length >= 1)
           => \A t2 \in Tenants, f2 \in FieldNames :
                  <<tenant_id, last.key_id[2].field_name>> # <<t2, f2>>
                      => last.ret.index
                             # CreateIndexIn(Generator(t2, master_key), last.key_id[1],
                                             [last.key_id[2] EXCEPT !.field_name = f2]).index

\* C13: create_index returns what a second generator, built from the
\* exported master key and the same tenant and asked first for this value,
\* returns: the index depends on master key, tenant, config and value only,
\* not on the calls made before or on the field-key cache
C13_CreateIndexDeterministic ==
    [][Called("create_index") =>
           LET second == ImportMasterKey(ExportMasterKey(Self), tenant_id)
           IN last'.ret.index
                  = CreateIndexIn(second, last'.key_id[1], last'.key_id[2]).index]_vars

\* a call served from the cache while the cache also holds another field
C13_Witness ==
    /\ last.op = "create_index"
    /\ last.ret.cache_hit
    /\ Cardinality(DOMAIN field_keys) = 2

\* C14: after every call each cached field key is the key derived from the
\* current master key, and a rotate_key call that is rejected changes
\* neither the master key nor the cache
C14_CacheMatchesMasterKey ==
    [][/\ \A f \in DOMAIN field_keys' :
              field_keys'[f] = HmacSha256(master_key', Context(tenant_id', f))
       /\ (Called("blind_index.rotate_key") /\ last'.outcome # "ok")
              => (master_key' = master_key /\ field_keys' = field_keys)]_vars

\* the master key has been rotated and a field key derived since
C14_Witness ==
    /\ master_key = RandomBytes("k2", 32)
    /\ last.op = "create_index"
    /\ ~last.ret.cache_hit
    /\ DOMAIN field_keys # {}

\* C15: create_index_raw returns exactly output_length bytes and
\* create_index returns the base64 text of exactly those bytes
C15_IndexLength ==
    [][/\ Called("create_index_raw")
              => Len(last'.ret.index) = last'.key_id[2].output_length
       /\ Called("create_index")
              => LET raw == CreateIndexRawIn(Self, last'.key_id[1], last'.key_id[2]).index
                 IN /\ Len(raw) = last'.key_id[2].output_length
                    /\ Base64Decode(last'.ret.index) = raw]_vars

\* C16: search over index_records(records, field, config) returns the ids of
\* all records whose field value equals the query after normalization, and
\* the empty list when there is none (for an index of at least one byte)
C16_SearchFindsAll ==
    (last.op = "search" /\ last.key_id[3].output_length >= 1) =>
        LET records == last.key_id[1]
            field_name == last.key_id[2]
            config == last.key_id[3]
            query_value == last.key_id[4]
            matching ==
                {records[i][1] : i \in
                    {j \in 1..Len(records) :
                        /\ field_name \in DOMAIN records[j][2]
                        /\ records[j][2][field_name] # None
                        /\ NormalizeValue(records[j][2][field_name][1], config)
                               = NormalizeValue(query_value, config)}}
        IN /\ {last.ret[i] : i \in 1..Len(last.ret)} = matching
           /\ matching = {} => last.ret = <<>>

\* C17: with 32-bit plaintexts and 64-bit ciphertexts, whatever the PRF
\* values are, the ciphertexts of two plaintexts a < b of the domain are in
\* the same strict order, in the cache and as encrypt_int returns them
C17_StrictOrder ==
    /\ \A a \in DOMAIN mapping_cache, b \in DOMAIN mapping_cache :
           BigLess(a.magnitude, b.magnitude)
               => BigLess(mapping_cache[a], mapping_cache[b])
    /\ (last.op = "encrypt_int" /\ last.outcome = "ok") =>
           \A b \in DOMAIN mapping_cache :
               /\ BigLess(last.key_id[1].magnitude, b.magnitude)
                      => BigLess(last.ret, mapping_cache[b])
               /\ BigLess(b.magnitude, last.key_id[1].magnitude)
                      => BigLess(mapping_cache[b], last.ret)

\* all four plaintexts are mapped, the one below plaintext_max with the
\* largest noise and plaintext_max itself with none
C17_Witness ==
    /\ last.op = "encrypt_int"
    /\ last.outcome = "ok"
    /\ DOMAIN mapping_cache = Plaintexts
    /\ prf[PyInt(FALSE, BigSub(plaintext_max, <<1>>))] # <<>>
    /\ prf[PyInt(FALSE, plaintext_max)] = <<>>

\* C18: after any encrypt_int and clear_cache calls every cache entry is the
\* value the mapping computes from the key and the plaintext, and encrypt_int
\* returns that value whether the plaintext was cached or not
C18_EncryptIntDeterministic ==
    [][/\ \A p \in DOMAIN mapping_cache' :
              mapping_cache'[p] = CiphertextOf[p][prf'[p]]
       /\ (Called("encrypt_int") /\ last'.outcome = "ok")
              => last'.ret = CiphertextOf[last'.key_id[1]][prf'[last'.key_id[1]]]]_vars

\* encrypt_int has returned a ciphertext with noise while the cache holds
\* that plaintext only
C18_Witness ==
    /\ last.op = "encrypt_int"
    /\ last.outcome = "ok"
    /\ prf[last.key_id[1]] # <<>>
    /\ DOMAIN mapping_cache = {last.key_id[1]}
    /\ mapping_cache[last.key_id[1]] = last.ret

\* C19: encrypt_float and encrypt_amount raise an error for every negative
\* value and for every value whose fixed-point conversion exceeds
\* plaintext_max, return no ciphertext and leave the cache as it was
C19_RejectsNegativeAndLarge ==
    [][(/\ Called("encrypt_float") \/ Called("encrypt_amount")
        /\ \/ last'.key_id[1].negative
           \/ BigLess(plaintext_max,
                      FixedPointOf[last'.key_id[1]][last'.key_id[2]].magnitude))
           => /\ last'.outcome = "ValueError"
              /\ last'.ret = None
              /\ mapping_cache' = mapping_cache]_vars

\* C20: range_query over the ciphertexts of a list of plaintexts, with the
\* ciphertexts of lo <= hi as bounds, returns the ciphertexts of the elements
\* between lo and hi inclusive, in the order of the list; a bound that is
\* None sets no limit
C20_RangeQueryExact ==
    last.op = "range_query" =>
        LET plaintexts == last.key_id[1]
            lo == last.key_id[2]
            hi == last.key_id[3]
            pairs == [i \in 1..Len(plaintexts) |->
                         <<plaintexts[i], last.ret.encrypted[i]>>]
            InRange(pair) ==
                /\ lo # None => BigLeq(lo[1].magnitude, pair[1].magnitude)
                /\ hi # None => BigLeq(pair[1].magnitude, hi[1].magnitude)
            selected == SelectSeq(pairs, InRange)
        IN /\ Len(last.ret.encrypted) = Len(plaintexts)
           /\ last.ret.result = [i \in 1..Len(selected) |-> selected[i][2]]

\* a query with both bounds that keeps the elements equal to the bounds and
\* drops another
C20_Witness ==
    /\ last.op = "range_query"
    /\ last.key_id[2] # None
    /\ last.key_id[3] # None
    /\ last.key_id[2] # last.key_id[3]
    /\ Len(last.ret.result) = 2
    /\ Len(last.ret.encrypted) = 3
    /\ prf[last.key_id[3][1]] # <<>>

\* C21: every keyword that keyword extraction produces is lowercase, has no
\* punctuation at either end, is longer than 2 characters and is not a stop
\* word
C21_KeywordsClean ==
    last.op = "_extract_keywords" =>
        \A kw \in last.ret :
            /\ Lower(kw) = kw
            /\ StripChars(kw, Punctuation) = kw
            /\ Len(kw) > MinKeywordLength
            /\ kw \notin stop_words

\* C22: search(generate_search_query(w), tokens of a document) is true
\* exactly when lowercase(w) is one of the keywords extracted from the
\* document, whatever the letter case of w and the order of the words
C22_SearchMatchesKeywords ==
    last.op = "searchable.search" =>
        /\ last.ret = (Lower(last.key_id[3]) \in ExtractKeywords(last.key_id[1]))
        /\ \A other \in Documents :
               ExtractKeywords(other) = ExtractKeywords(last.key_id[1])
                   => last.ret = SearchTokens(
                          GenerateSearchToken(search_key, Lower(last.key_id[3])),
                          EncryptDocumentIn(This, other, TRUE, {}, last.key_id[2]).search_tokens)

\* an upper-case query has matched a document of two words that holds the
\* word in another case
C22_Witness ==
    /\ last.op = "searchable.search"
    /\ last.ret
    /\ Lower(last.key_id[3]) # last.key_id[3]
    /\ last.key_id[3] \notin ExtractKeywords(last.key_id[1])
    /\ Len(Split(last.key_id[1])) = 2

\* C23: decrypt_document of encrypt_document(d) under the same encryption
\* key returns d's bytes; under another encryption key, or when the iv, the
\* tag or the ciphertext has been changed, it raises the decryption error
\* and returns nothing
C23_DecryptRoundTrip ==
    last.op = "decrypt_document" =>
        LET document == last.key_id[1]
            sent == EncryptDocumentIn(This, document, TRUE, {}, last.key_id[2]).encrypted_doc
        IN IF last.key_id[3] = sent /\ last.key_id[4] = encryption_key
               THEN last.outcome = "ok" /\ last.ret = Some(Utf8(document))
           ELSE last.outcome = "ValueError" /\ last.ret = None

\* a document of two words has been decrypted by the instance that
\* encrypted it
C23_Witness ==
    /\ last.op = "decrypt_document"
    /\ last.outcome = "ok"
    /\ Len(Split(last.key_id[1])) = 2
    /\ last.ret = Some(Utf8(last.key_id[1]))

\* C24: rotate_key on a known key whose record is inactive succeeds, returns
\* the id of a new record that is active, and leaves every other record's
\* active flag as it was, so that the successor of an earlier rotation of the
\* same key stays active beside the new one
C24_RotateInactiveSucceeds ==
    [][(/\ Called("rotate_key")
        /\ Known(last'.key_id)
        /\ ~metadata[last'.key_id].active)
           => /\ last'.outcome = "ok"
              /\ last'.ret \notin DOMAIN metadata
              /\ last'.ret \in DOMAIN metadata' \cap DOMAIN keys'
              /\ metadata'[last'.ret].active
              /\ \A k \in DOMAIN metadata \ {last'.ret} :
                     metadata'[k].active = metadata[k].active]_vars

\* C25: rotate_key and delete_key on a key_id the manager does not know fail
\* with NotFound and change nothing: no record is created or deactivated and
\* no audit entry is appended
C25_UnknownKeyChangesNothing ==
    [][(/\ Called("rotate_key") \/ Called("delete_key")
        /\ ~Known(last'.key_id))
           => /\ last'.outcome = "NotFound"
              /\ keys' = keys
              /\ metadata' = metadata
              /\ audit_log' = audit_log]_vars

\* a call on an unknown id has failed in a manager that holds another key
C25_Witness ==
    /\ last.op \in {"rotate_key", "delete_key"}
    /\ last.outcome = "NotFound"
    /\ \E k \in DOMAIN metadata : k # last.key_id /\ metadata[k].active
    /\ audit_log # <<>>

\* C26: no manager operation removes a record: the ids that
\* list_keys(active_only=False) returns never become fewer; and delete_key and
\* rotate_key leave the raw bytes of every existing record as they were and
\* change nothing of the existing records but the target's active flag
C26_RecordsNeverRemoved ==
    [][LET Listed(md) ==
               LET ids == ListKeys(md, None, FALSE) IN {ids[i] : i \in 1..Len(ids)}
       IN /\ Listed(metadata) \subseteq Listed(metadata')
          /\ (Called("delete_key") \/ Called("rotate_key")) =>
                 /\ \A k \in DOMAIN keys : k \in DOMAIN keys' /\ keys'[k] = keys[k]
                 /\ \A k \in DOMAIN metadata :
                        /\ k # last'.key_id => metadata'[k] = metadata[k]
                        /\ [metadata'[k] EXCEPT !.active = TRUE]
                               = [metadata[k] EXCEPT !.active = TRUE]]_vars

\* C28: after any create_key, get_key, rotate_key, delete_key, export_keys
\* and import_keys of exported bundles, the ids that have raw bytes are the
\* ids that have metadata, in the manager and in a new manager that imported
\* a bundle; get_key and rotate_key on an id find both or report NotFound
C28_KeysMatchMetadata ==
    [][/\ DOMAIN keys' = DOMAIN metadata'
       /\ Called("import_fresh")
              => DOMAIN last'.ret[3].keys = DOMAIN last'.ret[3].metadata
       /\ (Called("get_key") \/ Called("rotate_key"))
              => \/ Known(last'.key_id)
                 \/ /\ last'.outcome = "NotFound"
                    /\ last'.key_id \notin DOMAIN keys \cup DOMAIN metadata]_vars

\* a new manager has imported a bundle of two records taken after a rotation
C28_Witness ==
    /\ last.op = "import_fresh"
    /\ last.outcome = "ok"
    /\ Cardinality(DOMAIN last.ret[3].metadata) = 2
    /\ \E k \in DOMAIN last.ret[3].metadata :
           last.ret[3].metadata[k].description # None
    /\ Cardinality(DOMAIN metadata) = 2

\* C29: after any sequence of manager operations, import_keys included, the
\* access_count of every record is the number of successful 'get' entries
\* for its key_id in the audit log
C29_AccessCountMatchesLog ==
    \A k \in DOMAIN metadata :
        metadata[k].access_count
            = Cardinality({i \in 1..Len(audit_log) : SuccessfulGet(audit_log[i], k)})

\* C30: with no lock, get_key calls on one key that have all succeeded can
\* leave access_count short of the number of calls, never above it and, when
\* at least one succeeded, never below 1; calls that did not overlap one
\* another each add exactly 1
C30_LostUpdate ==
    (InProgress = {}) =>
        \A k \in DOMAIN metadata :
            LET succeeded == {t \in DOMAIN threads :
                                 threads[t].key_id = k /\ threads[t].outcome = "ok"}
                n == Cardinality(succeeded)
            IN /\ metadata[k].access_count <= n
               /\ n > 0 => metadata[k].access_count >= 1
               /\ (\A t \in succeeded : ~threads[t].overlapped)
                      => metadata[k].access_count = n

\* two calls on one key that interleaved between the read and the write
\* have both succeeded and access_count has grown by 1 only
C30_Witness ==
    /\ InProgress = {}
    /\ \E k \in DOMAIN metadata :
           /\ \A t \in ThreadIds :
                  /\ t \in DOMAIN threads
                  /\ threads[t].key_id = k
                  /\ threads[t].outcome = "ok"
                  /\ threads[t].overlapped
           /\ metadata[k].access_count = 1
           /\ Cardinality({i \in 1..Len(audit_log) : SuccessfulGet(audit_log[i], k)}) = 2

\* C27: for every plaintext_bits and ciphertext_bits, every key and PRF
\* value, encrypt_int returns for all a < b of [0, plaintext_max] ciphertexts
\* with encrypt_int(a) <= encrypt_int(b), and for every a of the domain a
\* ciphertext in [0, ciphertext_max]
C27_OrderForAllWidths ==
    last.op = "encrypt_int with widths" =>
        /\ last.outcome = "ok"
        /\ \A i \in 1..2 :
               /\ last.ret[i] # None
               /\ BigLeq(last.ret[i][1], MaxOf(last.key_id[2]))
        /\ BigLeq(last.ret[1][1], last.ret[2][1])

====
